---- MODULE Spec2Model ----
(***************************************************************************)
(* A model of github.com/cristalhq/fcm: the message codec (MarshalJSON /   *)
(* UnmarshalJSON of Message and its nested blocks), the duration and color *)
(* micro-formats, validateMessage and Client.Send.                         *)
(*                                                                         *)
(* Go strings that the code takes apart (durations, colors, topics) are    *)
(* sequences of one-character strings; strings the code only compares or   *)
(* copies are TLA+ strings.  A nil pointer or nil map is Nil, a nil slice  *)
(* the empty sequence.  A float64 is the exact fraction n/d: the color     *)
(* channels k/255 (k in 0..255) and their products with 255 are computed   *)
(* by float64 without a rounding that int() would show.                    *)
(***************************************************************************)
EXTENDS Integers, Sequences, FiniteSets, TLC

VARIABLES pc, dur, str, parsed, msg, verr, wire, dec, log, ret

vars == <<pc, dur, str, parsed, msg, verr, wire, dec, log, ret>>

(* The value of a variable that a specification does not use. *)
Unused == "unused"

(* LET x == v IN F(x), with v evaluated once. *)
With(v, F(_)) == F(v)

With2(v, w, F(_, _)) == F(v, w)

With3(u, v, w, F(_, _, _)) == F(u, v, w)

(***************************************************************************)
(* Characters and Go's string helpers.                                     *)
(***************************************************************************)
Digits == <<"0", "1", "2", "3", "4", "5", "6", "7", "8", "9">>

IsDigit(c) == \E i \in 1..10 : Digits[i] = c

DigitVal(c) == (CHOOSE i \in 1..10 : Digits[i] = c) - 1

RECURSIVE Pow10(_)
Pow10(k) == IF k = 0 THEN 1 ELSE 10 * Pow10(k - 1)

(* The decimal digits of n >= 0, most significant first. *)
RECURSIVE NatDigits(_)
NatDigits(n) ==
    IF n < 10 THEN <<Digits[n + 1]>>
    ELSE NatDigits(n \div 10) \o <<Digits[(n % 10) + 1]>>

(* fmt's %d verb. *)
FmtD(n) == IF n < 0 THEN <<"-">> \o NatDigits(0 - n) ELSE NatDigits(n)

RECURSIVE ZeroPad(_, _)
ZeroPad(cs, w) == IF Len(cs) >= w THEN cs ELSE ZeroPad(<<"0">> \o cs, w)

(* fmt's %09d verb: the sign first, then zeros up to a width of 9. *)
FmtD09(n) ==
    IF n < 0 THEN <<"-">> \o ZeroPad(NatDigits(0 - n), 8)
    ELSE ZeroPad(NatDigits(n), 9)

(* Go's integer division truncates toward zero. *)
GoDiv(a, b) == IF a >= 0 THEN a \div b ELSE 0 - ((0 - a) \div b)

HasPrefix(cs, p) == Len(cs) >= Len(p) /\ SubSeq(cs, 1, Len(p)) = p

(* strings.TrimPrefix: cs without one leading p. *)
TrimPrefix(cs, p) ==
    IF HasPrefix(cs, p) THEN SubSeq(cs, Len(p) + 1, Len(cs)) ELSE cs

(* strings.TrimSuffix(cs, c) for a one-character suffix c. *)
TrimSuffix(cs, c) ==
    IF Len(cs) > 0 /\ cs[Len(cs)] = c THEN SubSeq(cs, 1, Len(cs) - 1) ELSE cs

(* strings.TrimLeft(cs, c) for a one-character cutset c. *)
RECURSIVE TrimLeft(_, _)
TrimLeft(cs, c) ==
    IF Len(cs) > 0 /\ cs[1] = c THEN TrimLeft(Tail(cs), c) ELSE cs

(* strings.Split(cs, c) for a one-character separator c. *)
RECURSIVE Split(_, _)
Split(cs, c) ==
    IF \A i \in 1..Len(cs) : cs[i] # c THEN <<cs>>
    ELSE LET i == CHOOSE j \in 1..Len(cs) :
                      cs[j] = c /\ \A k \in 1..(j - 1) : cs[k] # c
         IN  <<SubSeq(cs, 1, i - 1)>> \o Split(SubSeq(cs, i + 1, Len(cs)), c)

RECURSIVE DigitsVal(_)
DigitsVal(cs) ==
    IF Len(cs) = 0 THEN 0
    ELSE 10 * DigitsVal(SubSeq(cs, 1, Len(cs) - 1)) + DigitVal(cs[Len(cs)])

(* strconv.ParseInt(cs, 10, 64): an optional sign, then one digit or more. *)
(* (The range error needs 19 digits or more; no input here is that long.)  *)
ParseInt(cs) ==
    LET signed == Len(cs) > 0 /\ cs[1] \in {"+", "-"}
        body   == IF signed THEN Tail(cs) ELSE cs
    IN  IF Len(body) = 0 \/ \E i \in 1..Len(body) : ~IsDigit(body[i])
        THEN [ok |-> FALSE, v |-> 0]
        ELSE [ok |-> TRUE,
              v  |-> IF signed /\ cs[1] = "-" THEN 0 - DigitsVal(body)
                     ELSE DigitsVal(body)]

(***************************************************************************)
(* time.Duration is an int64 count of nanoseconds.  A duration d is held   *)
(* as [sec, ns] with d = sec * 10^9 + ns, |ns| < 10^9 and ns of the sign   *)
(* of d: the quotient and remainder of Go's d / time.Second.               *)
(***************************************************************************)
Second == 1000000000

Millisecond == 1000000

Dur(sec, ns) == [sec |-> sec, ns |-> ns]

(* time.Duration(sec)*time.Second + time.Duration(n)*time.Nanosecond *)
DurSum(sec, n) ==
    LET s1 == sec + GoDiv(n, Second)
        n1 == n - GoDiv(n, Second) * Second
    IN  IF s1 > 0 /\ n1 < 0 THEN Dur(s1 - 1, n1 + Second)
        ELSE IF s1 < 0 /\ n1 > 0 THEN Dur(s1 + 1, n1 - Second)
        ELSE Dur(s1, n1)

DurNegative(d) == d.sec < 0 \/ d.ns < 0

(* time.Duration(t) * time.Millisecond *)
MillisToDur(t) ==
    Dur(GoDiv(t, 1000), (t - GoDiv(t, 1000) * 1000) * Millisecond)

(* int64(d / time.Millisecond) *)
DurToMillis(d) == d.sec * 1000 + GoDiv(d.ns, Millisecond)

durationToString_NoPad(ms) ==
    LET seconds == ms.sec
        nanos   == ms.ns
    IN  IF nanos > 0 THEN FmtD(seconds) \o <<".">> \o FmtD(nanos) \o <<"s">>
        ELSE FmtD(seconds) \o <<"s">>

durationToString(ms) ==
    LET seconds == ms.sec
        nanos   == ms.ns
    IN  IF nanos > 0 THEN FmtD(seconds) \o <<".">> \o FmtD09(nanos) \o <<"s">>
        ELSE FmtD(seconds) \o <<"s">>

DurErr == [ok |-> FALSE, d |-> Dur(0, 0)]

(* strings.TrimRight(cs, c) for a one-character cutset c. *)
RECURSIVE TrimRight(_, _)
TrimRight(cs, c) ==
    IF Len(cs) > 0 /\ cs[Len(cs)] = c
    THEN TrimRight(SubSeq(cs, 1, Len(cs) - 1), c)
    ELSE cs

(* stringToDuration with the zeros trimmed on the right. *)
stringToDuration_TrimRight(s) ==
    With(Split(TrimSuffix(s, "s"), "."), LAMBDA segments :
      IF Len(segments) # 1 /\ Len(segments) # 2 THEN DurErr
      ELSE With(ParseInt(segments[1]), LAMBDA seconds :
        IF ~seconds.ok THEN DurErr
        ELSE IF Len(segments) = 2
        THEN With(ParseInt(TrimRight(segments[2], "0")), LAMBDA nanos :
               IF ~nanos.ok THEN DurErr
               ELSE [ok |-> TRUE, d |-> DurSum(seconds.v, nanos.v)])
        ELSE [ok |-> TRUE, d |-> DurSum(seconds.v, 0)]))

stringToDuration(s) ==
    With(Split(TrimSuffix(s, "s"), "."), LAMBDA segments :
      IF Len(segments) # 1 /\ Len(segments) # 2 THEN DurErr
      ELSE With(ParseInt(segments[1]), LAMBDA seconds :
        IF ~seconds.ok THEN DurErr
        ELSE IF Len(segments) = 2
        THEN With(ParseInt(TrimLeft(segments[2], "0")), LAMBDA nanos :
               IF ~nanos.ok THEN DurErr
               ELSE [ok |-> TRUE, d |-> DurSum(seconds.v, nanos.v)])
        ELSE [ok |-> TRUE, d |-> DurSum(seconds.v, 0)]))


(***************************************************************************)
(* JSON values of a wire document.  Every value has the same shape: t is   *)
(* the JSON kind; s an opaque string; cs a string held as characters; n/d  *)
(* a number n/d (an integer literal when d = 1); b a boolean; o the        *)
(* members of an object (a function of its keys); a the elements of an     *)
(* array.                                                                  *)
(***************************************************************************)
EmptyObj == [k \in {} |-> TRUE]

JBase == [t |-> "null", s |-> "", cs |-> <<>>, n |-> 0, d |-> 1, b |-> FALSE,
          o |-> EmptyObj, a |-> <<>>]

JNull == JBase

JStr(s) == [JBase EXCEPT !.t = "str", !.s = s]

(* A JSON string whose characters the code reads. *)
JChars(cs) == [JBase EXCEPT !.t = "chars", !.cs = cs]

JNum(n) == [JBase EXCEPT !.t = "num", !.n = n]

(* The JSON number n/d. *)
JFrac(n, d) ==
    IF n % d = 0 THEN [JBase EXCEPT !.t = "num", !.n = n \div d]
    ELSE [JBase EXCEPT !.t = "num", !.n = n, !.d = d]

JBool(b) == [JBase EXCEPT !.t = "bool", !.b = b]

JObj(o) == [JBase EXCEPT !.t = "obj", !.o = o]

JArr(a) == [JBase EXCEPT !.t = "arr", !.a = a]

(* A Go value encoding/json cannot encode (a channel, a func, NaN). *)
JUnsupported == [JBase EXCEPT !.t = "unsupported"]

IsInt(j) == j.t = "num" /\ j.d = 1

(* A nil pointer or a nil map. A nil slice is the empty sequence: len, range *)
(* and omitempty do not tell the two apart.                                *)
Nil == [nil |-> TRUE]

(* *int: Nil or IntPtr(v).  *time.Duration: Nil or DurPtr(d). *)
IntPtr(v) == [int |-> v]

DurPtr(d) == [dur |-> d]

(* *time.Time: Nil or TimePtr(k), the instant k; its wire form is the      *)
(* rfc3339Zulu string of the instant, which time.Parse reads back.         *)
TimePtr(k) == [instant |-> k]

rfc3339Zulu(k) == [JBase EXCEPT !.t = "str", !.s = "rfc3339Zulu", !.n = k]

(* len(m) and the keys of range m, for a map that may be nil. *)
MapKeys(m) == IF m = Nil THEN {} ELSE DOMAIN m

(* The members of a struct encoding: one key, or none (omitempty). *)
OmitStr(key, s) == IF s = "" THEN EmptyObj ELSE key :> JStr(s)

OmitChars(key, cs) == IF cs = <<>> THEN EmptyObj ELSE key :> JChars(cs)

OmitBool(key, b) == IF b THEN key :> JBool(TRUE) ELSE EmptyObj

OmitIntPtr(key, p) == IF p = Nil THEN EmptyObj ELSE key :> JNum(p.int)

(* map[string]string with omitempty. *)
OmitStrMap(key, m) ==
    IF MapKeys(m) = {} THEN EmptyObj
    ELSE key :> JObj([k \in DOMAIN m |-> JStr(m[k])])

(* []string with omitempty. *)
OmitStrList(key, l) ==
    IF l = <<>> THEN EmptyObj ELSE key :> JArr([i \in 1..Len(l) |-> JStr(l[i])])

(* A pointer to a struct with omitempty: enc is the struct's encoding. *)
OmitPtr(key, p, enc) == IF p = Nil THEN EmptyObj ELSE key :> enc

(* maps.Copy(m, custom): custom's keys are written over m's. *)
Overlay(m, custom) ==
    IF custom = Nil THEN m
    ELSE [k \in DOMAIN m \cup DOMAIN custom |->
            IF k \in DOMAIN custom THEN custom[k] ELSE m[k]]

(* An encoding is [st |-> "ok", j |-> value], or "err" (an error return), *)
(* or "panic" (a run-time panic).                                          *)
EncOk(j) == [st |-> "ok", j |-> j, e |-> ""]

EncErr(e) == [st |-> "err", j |-> JNull, e |-> e]

EncPanic(e) == [st |-> "panic", j |-> JNull, e |-> e]

(***************************************************************************)
(* Typed reads of a decoded JSON object, as encoding/json does them for a  *)
(* struct field: a missing key or a null leaves the zero value; a value of *)
(* another JSON kind is an UnmarshalTypeError.                             *)
(***************************************************************************)
Has(o, key) == key \in DOMAIN o /\ o[key].t # "null"

KindOk(o, key, kinds) == Has(o, key) => o[key].t \in kinds

GetStr(o, key) == IF Has(o, key) THEN o[key].s ELSE ""

GetChars(o, key) == IF Has(o, key) THEN o[key].cs ELSE <<>>

GetBool(o, key) == IF Has(o, key) THEN o[key].b ELSE FALSE

GetInt(o, key) == IF Has(o, key) THEN o[key].n ELSE 0

GetIntPtr(o, key) == IF Has(o, key) THEN IntPtr(o[key].n) ELSE Nil

IntOk(o, key) == Has(o, key) => IsInt(o[key])

StrOk(o, key) == KindOk(o, key, {"str"})

CharsOk(o, key) == KindOk(o, key, {"chars"})

BoolOk(o, key) == KindOk(o, key, {"bool"})

StrMapOk(o, key) ==
    Has(o, key) =>
        /\ o[key].t = "obj"
        /\ \A k \in DOMAIN o[key].o : o[key].o[k].t \in {"str", "null"}

GetStrMap(o, key) ==
    IF Has(o, key) THEN [k \in DOMAIN o[key].o |-> o[key].o[k].s] ELSE Nil

StrListOk(o, key) ==
    Has(o, key) =>
        /\ o[key].t = "arr"
        /\ \A i \in 1..Len(o[key].a) : o[key].a[i].t \in {"str", "null"}

GetStrList(o, key) ==
    IF Has(o, key) THEN [i \in 1..Len(o[key].a) |-> o[key].a[i].s] ELSE <<>>

(* A decoding is [st |-> "ok", v |-> value], "err" or "panic". *)
DecOk(v) == [st |-> "ok", v |-> v, e |-> ""]

DecErr(e) == [st |-> "err", v |-> Nil, e |-> e]

DecPanic(e) == [st |-> "panic", v |-> Nil, e |-> e]

(***************************************************************************)
(* The color micro-format.  A color holds four float64 channels; a channel *)
(* is the rational [n, d].  newColor makes k/255 of the byte k, and for    *)
(* every k in 0..255 the float64 product (k/255.0)*255.0 is k exactly, as  *)
(* the exact quotient below gives.                                         *)
(***************************************************************************)
HexDigits ==
    <<"0", "1", "2", "3", "4", "5", "6", "7", "8", "9", "A", "B", "C", "D", "E", "F">>

LowerHex == <<"a", "b", "c", "d", "e", "f">>

IsHexDigit(c) ==
    (\E i \in 1..16 : HexDigits[i] = c) \/ (\E i \in 1..6 : LowerHex[i] = c)

HexVal(c) ==
    IF \E i \in 1..16 : HexDigits[i] = c
    THEN (CHOOSE i \in 1..16 : HexDigits[i] = c) - 1
    ELSE (CHOOSE i \in 1..6 : LowerHex[i] = c) + 9

RECURSIVE HexDigitsVal(_)
HexDigitsVal(cs) ==
    IF Len(cs) = 0 THEN 0
    ELSE 16 * HexDigitsVal(SubSeq(cs, 1, Len(cs) - 1)) + HexVal(cs[Len(cs)])

(* strconv.ParseInt(cs, 16, 32) *)
ParseHex(cs) ==
    LET signed == Len(cs) > 0 /\ cs[1] \in {"+", "-"}
        body   == IF signed THEN Tail(cs) ELSE cs
    IN  IF Len(body) = 0 \/ \E i \in 1..Len(body) : ~IsHexDigit(body[i])
        THEN [ok |-> FALSE, v |-> 0]
        ELSE [ok |-> TRUE,
              v  |-> IF signed /\ cs[1] = "-" THEN 0 - HexDigitsVal(body)
                     ELSE HexDigitsVal(body)]

(* fmt's %X verb: upper-case hexadecimal, no padding. *)
RECURSIVE NatHex(_)
NatHex(n) ==
    IF n < 16 THEN <<HexDigits[n + 1]>>
    ELSE NatHex(n \div 16) \o <<HexDigits[(n % 16) + 1]>>

FmtX(n) == IF n < 0 THEN <<"-">> \o NatHex(0 - n) ELSE NatHex(n)

Chan(n, d) == [n |-> n, d |-> d]

color(red, green, blue, alpha) ==
    [Red |-> red, Green |-> green, Blue |-> blue, Alpha |-> alpha]

(* newColor's result: the slices clr[1:3], clr[3:5], clr[5:7] and, for a  *)
(* string of 9 bytes, clr[7:9] are taken and parsed in turn; "panic" when  *)
(* a slice expression is out of range.                                     *)
newColor(clr) ==
    IF Len(clr) < 3 THEN DecPanic("slice bounds out of range")
    ELSE IF ~ParseHex(SubSeq(clr, 2, 3)).ok THEN DecErr("failed to parse color")
    ELSE IF Len(clr) < 5 THEN DecPanic("slice bounds out of range")
    ELSE IF ~ParseHex(SubSeq(clr, 4, 5)).ok THEN DecErr("failed to parse color")
    ELSE IF Len(clr) < 7 THEN DecPanic("slice bounds out of range")
    ELSE IF ~ParseHex(SubSeq(clr, 6, 7)).ok THEN DecErr("failed to parse color")
    ELSE IF Len(clr) = 9 /\ ~ParseHex(SubSeq(clr, 8, 9)).ok
    THEN DecErr("failed to parse color")
    ELSE DecOk(color(Chan(ParseHex(SubSeq(clr, 2, 3)).v, 255),
                     Chan(ParseHex(SubSeq(clr, 4, 5)).v, 255),
                     Chan(ParseHex(SubSeq(clr, 6, 7)).v, 255),
                     Chan(IF Len(clr) = 9 THEN ParseHex(SubSeq(clr, 8, 9)).v ELSE 255,
                          255)))


(* int(c * 255.0): the product truncated toward zero. *)
Denormalize(c) == GoDiv(c.n * 255, c.d)

color_toString(c) ==
    LET red   == Denormalize(c.Red)
        green == Denormalize(c.Green)
        blue  == Denormalize(c.Blue)
        alpha == Denormalize(c.Alpha)
    IN  IF alpha = 255 THEN <<"#">> \o FmtX(red) \o FmtX(green) \o FmtX(blue)
        ELSE <<"#">> \o FmtX(red) \o FmtX(green) \o FmtX(blue) \o FmtX(alpha)

(* The struct color on the wire: four numbers, none omitted. *)
color_Marshal(c) ==
    JObj(("red" :> JFrac(c.Red.n, c.Red.d)) @@ ("green" :> JFrac(c.Green.n, c.Green.d))
         @@ ("blue" :> JFrac(c.Blue.n, c.Blue.d))
         @@ ("alpha" :> JFrac(c.Alpha.n, c.Alpha.d)))

GetChan(o, key) == IF Has(o, key) THEN Chan(o[key].n, o[key].d) ELSE Chan(0, 1)

(* Decoding into *color: Nil for a missing or null member. *)
color_Unmarshal(o, key) ==
    IF ~Has(o, key) THEN DecOk(Nil)
    ELSE IF o[key].t # "obj"
              \/ \E k \in {"red", "green", "blue", "alpha"} :
                     ~KindOk(o[key].o, k, {"num"})
    THEN DecErr("json: cannot unmarshal into color")
    ELSE LET c == o[key].o
         IN  DecOk(color(GetChan(c, "red"), GetChan(c, "green"),
                         GetChan(c, "blue"), GetChan(c, "alpha")))

(***************************************************************************)
(* LightSettings                                                           *)
(***************************************************************************)
LightSettings(clr, on, off) ==
    [Color |-> clr, LightOnDurationMillis |-> on, LightOffDurationMillis |-> off]

LightSettings_MarshalJSON(l) ==
    With(newColor(l.Color), LAMBDA clr :
      IF clr.st = "panic" THEN EncPanic(clr.e)
      ELSE IF clr.st = "err" THEN EncErr(clr.e)
      ELSE EncOk(JObj(
             ("color" :> color_Marshal(clr.v))
             @@ ("light_on_duration" :>
                    JChars(durationToString(MillisToDur(l.LightOnDurationMillis))))
             @@ ("light_off_duration" :>
                    JChars(durationToString(MillisToDur(l.LightOffDurationMillis)))))))


LightSettings_UnmarshalJSON(j) ==
    IF j.t # "obj" THEN DecErr("json: cannot unmarshal into LightSettings")
    ELSE With3(color_Unmarshal(j.o, "color"),
               stringToDuration(GetChars(j.o, "light_on_duration")),
               stringToDuration(GetChars(j.o, "light_off_duration")),
               LAMBDA clr, on, off :
           IF clr.st # "ok" \/ ~CharsOk(j.o, "light_on_duration")
                \/ ~CharsOk(j.o, "light_off_duration")
           THEN DecErr("json: cannot unmarshal into LightSettings")
           ELSE IF ~on.ok THEN DecErr("light_on_duration")
           ELSE IF ~off.ok THEN DecErr("light_off_duration")
           ELSE IF clr.v = Nil THEN DecPanic("nil pointer dereference")
           ELSE DecOk(LightSettings(color_toString(clr.v),
                                    DurToMillis(on.d), DurToMillis(off.d))))


(***************************************************************************)
(* AndroidNotification and its three enums                                 *)
(***************************************************************************)
priorityUnknown == 0

visibilityUnknown == 0

proxyUnknown == 0

PriorityMin == 1

PriorityLow == 2

PriorityDefault == 3

PriorityHigh == 4

PriorityMax == 5

VisibilityPrivate == 1

VisibilityPublic == 2

VisibilitySecret == 3

ProxyAllow == 1

ProxyDeny == 2

ProxyIfPriorityLowered == 3

(* The tables of MarshalJSON, value to token. *)
priorities ==
    (PriorityMin :> "PRIORITY_MIN") @@ (PriorityLow :> "PRIORITY_LOW")
    @@ (PriorityDefault :> "PRIORITY_DEFAULT") @@ (PriorityHigh :> "PRIORITY_HIGH")
    @@ (PriorityMax :> "PRIORITY_MAX")

visibilities ==
    (VisibilityPrivate :> "PRIVATE") @@ (VisibilityPublic :> "PUBLIC")
    @@ (VisibilitySecret :> "SECRET")

proxies ==
    (ProxyAllow :> "ALLOW") @@ (ProxyDeny :> "DENY")
    @@ (ProxyIfPriorityLowered :> "IF_PRIORITY_LOWERED")

(* The decoding table with the values of the two highest priorities      *)
(* exchanged.                                                              *)
prioritiesByToken_HighMax ==
    ("PRIORITY_MIN" :> PriorityMin) @@ ("PRIORITY_LOW" :> PriorityLow)
    @@ ("PRIORITY_DEFAULT" :> PriorityDefault) @@ ("PRIORITY_HIGH" :> PriorityMax)
    @@ ("PRIORITY_MAX" :> PriorityHigh)

(* The tables of UnmarshalJSON, token to value. *)
prioritiesByToken ==
    ("PRIORITY_MIN" :> PriorityMin) @@ ("PRIORITY_LOW" :> PriorityLow)
    @@ ("PRIORITY_DEFAULT" :> PriorityDefault) @@ ("PRIORITY_HIGH" :> PriorityHigh)
    @@ ("PRIORITY_MAX" :> PriorityMax)

visibilitiesByToken ==
    ("PRIVATE" :> VisibilityPrivate) @@ ("PUBLIC" :> VisibilityPublic)
    @@ ("SECRET" :> VisibilitySecret)

proxiesByToken ==
    ("ALLOW" :> ProxyAllow) @@ ("DENY" :> ProxyDeny)
    @@ ("IF_PRIORITY_LOWERED" :> ProxyIfPriorityLowered)

(* table[v] of a Go map: the zero value "" for a missing key. *)
Token(table, v) == IF v \in DOMAIN table THEN table[v] ELSE ""

AndroidNotification0 ==
    [Title |-> "", Body |-> "", Icon |-> "", Color |-> <<>>, Sound |-> "", Tag |-> "",
     ClickAction |-> "", BodyLocKey |-> "", BodyLocArgs |-> <<>>, TitleLocKey |-> "",
     TitleLocArgs |-> <<>>, ChannelID |-> "", Ticker |-> "", Sticky |-> FALSE,
     EventTimestamp |-> Nil, LocalOnly |-> FALSE, Priority |-> priorityUnknown,
     DefaultSound |-> FALSE, DefaultVibrateTimings |-> FALSE,
     DefaultLightSettings |-> FALSE, VibrateTimingMillis |-> <<>>,
     Visibility |-> visibilityUnknown, NotificationCount |-> Nil,
     LightSettings |-> Nil, ImageURL |-> "", Proxy |-> proxyUnknown]

AndroidNotification_MarshalJSON(a) ==
    LET priority   == IF a.Priority # priorityUnknown
                      THEN Token(priorities, a.Priority) ELSE ""
        visibility == IF a.Visibility # visibilityUnknown
                      THEN Token(visibilities, a.Visibility) ELSE ""
        proxy      == IF a.Proxy # proxyUnknown THEN Token(proxies, a.Proxy) ELSE ""
        timestamp  == IF a.EventTimestamp # Nil
                      THEN "event_time" :> rfc3339Zulu(a.EventTimestamp.instant)
                      ELSE EmptyObj
        vibTimings == [i \in 1..Len(a.VibrateTimingMillis) |->
                          JChars(durationToString(MillisToDur(a.VibrateTimingMillis[i])))]
    IN  With2(IF a.LightSettings = Nil THEN EncOk(JNull)
              ELSE LightSettings_MarshalJSON(a.LightSettings),
              vibTimings, LAMBDA light, vib :
          IF light.st # "ok" THEN light
          ELSE EncOk(JObj(
               timestamp
               @@ OmitStr("notification_priority", priority)
               @@ OmitStr("visibility", visibility)
               @@ OmitStr("proxy", proxy)
               @@ (IF vib = <<>> THEN EmptyObj ELSE "vibrate_timings" :> JArr(vib))
               @@ OmitStr("title", a.Title) @@ OmitStr("body", a.Body)
               @@ OmitStr("icon", a.Icon) @@ OmitChars("color", a.Color)
               @@ OmitStr("sound", a.Sound) @@ OmitStr("tag", a.Tag)
               @@ OmitStr("click_action", a.ClickAction)
               @@ OmitStr("body_loc_key", a.BodyLocKey)
               @@ OmitStrList("body_loc_args", a.BodyLocArgs)
               @@ OmitStr("title_loc_key", a.TitleLocKey)
               @@ OmitStrList("title_loc_args", a.TitleLocArgs)
               @@ OmitStr("channel_id", a.ChannelID) @@ OmitStr("ticker", a.Ticker)
               @@ OmitBool("sticky", a.Sticky) @@ OmitBool("local_only", a.LocalOnly)
               @@ OmitBool("default_sound", a.DefaultSound)
               @@ OmitBool("default_vibrate_timings", a.DefaultVibrateTimings)
               @@ OmitBool("default_light_settings", a.DefaultLightSettings)
               @@ OmitIntPtr("notification_count", a.NotificationCount)
               @@ OmitPtr("light_settings", a.LightSettings, light.j)
               @@ OmitStr("image", a.ImageURL))))


AndroidNotificationStrKeys ==
    {"notification_priority", "visibility", "proxy", "event_time", "title", "body",
     "icon", "sound", "tag", "click_action", "body_loc_key", "title_loc_key",
     "channel_id", "ticker", "image"}

AndroidNotificationBoolKeys ==
    {"sticky", "local_only", "default_sound", "default_vibrate_timings",
     "default_light_settings"}

(* stringToDuration of every element, or the first error. *)
RECURSIVE VibrateMillis(_)
VibrateMillis(a) ==
    IF a = <<>> THEN [ok |-> TRUE, l |-> <<>>]
    ELSE LET vibTime == stringToDuration(a[1].cs)
             rest    == VibrateMillis(Tail(a))
         IN  IF ~vibTime.ok \/ ~rest.ok THEN [ok |-> FALSE, l |-> <<>>]
             ELSE [ok |-> TRUE, l |-> <<DurToMillis(vibTime.d)>> \o rest.l]

(* The part of UnmarshalJSON after json.Unmarshal(b, &tmp): o is the wire  *)
(* object, light the decoded light_settings, vib the parsed timings.       *)
AndroidNotification_FromTmp(o, light, vib, prio, vis, prox, ts) ==
    IF prio # "" /\ prio \notin DOMAIN prioritiesByToken
    THEN DecErr("unknown priority value")
    ELSE IF vis # "" /\ vis \notin DOMAIN visibilitiesByToken
    THEN DecErr("unknown visibility value")
    ELSE IF prox # "" /\ prox \notin DOMAIN proxiesByToken
    THEN DecErr("unknown proxy value")
    ELSE IF ts # JStr("") /\ ts.s # "rfc3339Zulu"
    THEN DecErr("parsing time")
    ELSE IF ~vib.ok THEN DecErr("failed to parse vibrate timing")
    ELSE DecOk(
      [Title |-> GetStr(o, "title"), Body |-> GetStr(o, "body"),
       Icon |-> GetStr(o, "icon"), Color |-> GetChars(o, "color"),
       Sound |-> GetStr(o, "sound"), Tag |-> GetStr(o, "tag"),
       ClickAction |-> GetStr(o, "click_action"),
       BodyLocKey |-> GetStr(o, "body_loc_key"),
       BodyLocArgs |-> GetStrList(o, "body_loc_args"),
       TitleLocKey |-> GetStr(o, "title_loc_key"),
       TitleLocArgs |-> GetStrList(o, "title_loc_args"),
       ChannelID |-> GetStr(o, "channel_id"), Ticker |-> GetStr(o, "ticker"),
       Sticky |-> GetBool(o, "sticky"),
       EventTimestamp |-> IF ts # JStr("") THEN TimePtr(ts.n) ELSE Nil,
       LocalOnly |-> GetBool(o, "local_only"),
       Priority |-> IF prio # "" THEN prioritiesByToken[prio] ELSE priorityUnknown,
       DefaultSound |-> GetBool(o, "default_sound"),
       DefaultVibrateTimings |-> GetBool(o, "default_vibrate_timings"),
       DefaultLightSettings |-> GetBool(o, "default_light_settings"),
       VibrateTimingMillis |-> vib.l,
       Visibility |-> IF vis # "" THEN visibilitiesByToken[vis]
                      ELSE visibilityUnknown,
       NotificationCount |-> GetIntPtr(o, "notification_count"),
       LightSettings |-> light.v,
       ImageURL |-> GetStr(o, "image"),
       Proxy |-> IF prox # "" THEN proxiesByToken[prox] ELSE proxyUnknown])

AndroidNotification_TypesOk(o) ==
    /\ \A k \in AndroidNotificationStrKeys : StrOk(o, k)
    /\ \A k \in AndroidNotificationBoolKeys : BoolOk(o, k)
    /\ CharsOk(o, "color")
    /\ StrListOk(o, "body_loc_args") /\ StrListOk(o, "title_loc_args")
    /\ IntOk(o, "notification_count")
    /\ Has(o, "vibrate_timings") =>
          /\ o["vibrate_timings"].t = "arr"
          /\ \A i \in 1..Len(o["vibrate_timings"].a) :
                 o["vibrate_timings"].a[i].t \in {"chars", "null"}

AndroidNotification_UnmarshalJSON(j) ==
    IF j.t # "obj" THEN DecErr("json: cannot unmarshal into AndroidNotification")
    ELSE With(IF Has(j.o, "light_settings")
              THEN LightSettings_UnmarshalJSON(j.o["light_settings"]) ELSE DecOk(Nil),
              LAMBDA light :
           IF light.st = "panic" THEN light
           ELSE IF light.st = "err" \/ ~AndroidNotification_TypesOk(j.o)
           THEN DecErr("json: cannot unmarshal into AndroidNotification")
           ELSE AndroidNotification_FromTmp(
                  j.o, light,
                  VibrateMillis(IF Has(j.o, "vibrate_timings")
                                THEN j.o["vibrate_timings"].a ELSE <<>>),
                  GetStr(j.o, "notification_priority"), GetStr(j.o, "visibility"),
                  GetStr(j.o, "proxy"),
                  IF Has(j.o, "event_time") THEN j.o["event_time"] ELSE JStr("")))


(***************************************************************************)
(* AndroidConfig                                                           *)
(***************************************************************************)
AndroidFCMOptions(label) == [AnalyticsLabel |-> label]

AnalyticsLabel_Marshal(f) == JObj(OmitStr("analytics_label", f.AnalyticsLabel))

AndroidConfig0 ==
    [CollapseKey |-> "", Priority |-> "", TTL |-> Nil, RestrictedPackageName |-> "",
     Data |-> Nil, Notification |-> Nil, FCMOptions |-> Nil, DirectBootOK |-> FALSE]

AndroidConfig_MarshalJSON(a) ==
    With2(IF a.TTL # Nil THEN durationToString(a.TTL.dur) ELSE <<>>,
          IF a.Notification = Nil THEN EncOk(JNull)
          ELSE AndroidNotification_MarshalJSON(a.Notification),
          LAMBDA ttl, notif :
      IF notif.st # "ok" THEN notif
      ELSE EncOk(JObj(
             OmitChars("ttl", ttl)
             @@ OmitStr("collapse_key", a.CollapseKey)
             @@ OmitStr("priority", a.Priority)
             @@ OmitStr("restricted_package_name", a.RestrictedPackageName)
             @@ OmitStrMap("data", a.Data)
             @@ OmitPtr("notification", a.Notification, notif.j)
             @@ (IF a.FCMOptions = Nil THEN EmptyObj
                 ELSE "fcm_options" :> AnalyticsLabel_Marshal(a.FCMOptions))
             @@ OmitBool("direct_boot_ok", a.DirectBootOK))))


(* Decoding a pointer to a struct that holds only analytics_label. *)
AnalyticsLabelOk(o, key) ==
    Has(o, key) => (o[key].t = "obj" /\ StrOk(o[key].o, "analytics_label"))

AndroidConfig_TypesOk(o) ==
    /\ CharsOk(o, "ttl") /\ StrOk(o, "collapse_key")
    /\ StrOk(o, "priority") /\ StrOk(o, "restricted_package_name")
    /\ StrMapOk(o, "data") /\ AnalyticsLabelOk(o, "fcm_options")
    /\ BoolOk(o, "direct_boot_ok")

AndroidConfig_UnmarshalJSON(j) ==
    IF j.t # "obj" THEN DecErr("json: cannot unmarshal into AndroidConfig")
    ELSE With3(j.o,
               IF Has(j.o, "notification")
               THEN AndroidNotification_UnmarshalJSON(j.o["notification"])
               ELSE DecOk(Nil),
               stringToDuration(GetChars(j.o, "ttl")),
               LAMBDA o, notif, ttl :
      IF notif.st = "panic" THEN notif
      ELSE IF notif.st = "err" \/ ~AndroidConfig_TypesOk(o)
      THEN DecErr("json: cannot unmarshal into AndroidConfig")
      ELSE IF GetChars(o, "ttl") # <<>> /\ ~ttl.ok THEN DecErr("failed to parse ttl")
      ELSE DecOk(
        [CollapseKey |-> GetStr(o, "collapse_key"),
         Priority |-> GetStr(o, "priority"),
         TTL |-> IF GetChars(o, "ttl") # <<>> THEN DurPtr(ttl.d) ELSE Nil,
         RestrictedPackageName |-> GetStr(o, "restricted_package_name"),
         Data |-> GetStrMap(o, "data"),
         Notification |-> notif.v,
         FCMOptions |-> IF Has(o, "fcm_options")
                        THEN AndroidFCMOptions(GetStr(o["fcm_options"].o,
                                                      "analytics_label"))
                        ELSE Nil,
         DirectBootOK |-> GetBool(o, "direct_boot_ok")]))


(***************************************************************************)
(* WebpushConfig.  A Go value of type any is held as the JSON value it     *)
(* encodes to; the nil interface is JNull.                                 *)
(***************************************************************************)
WebpushNotificationAction(action, title, icon) ==
    [Action |-> action, Title |-> title, Icon |-> icon]

WebpushNotificationAction_Marshal(x) ==
    JObj(OmitStr("action", x.Action) @@ OmitStr("title", x.Title)
         @@ OmitStr("icon", x.Icon))

WebpushNotification0 ==
    [Actions |-> <<>>, Title |-> "", Body |-> "", Icon |-> "", Badge |-> "",
     Direction |-> "", Data |-> JNull, Image |-> "", Language |-> "",
     Renotify |-> FALSE, RequireInteraction |-> FALSE, Silent |-> FALSE, Tag |-> "",
     TimestampMillis |-> Nil, Vibrate |-> <<>>, CustomData |-> Nil]

(* The keys the struct tags of WebpushNotification name. *)
WebpushNotificationKeys ==
    {"actions", "title", "body", "icon", "badge", "dir", "data", "image", "lang",
     "renotify", "requireInteraction", "silent", "tag", "timestamp", "vibrate"}

WebpushNotification_standardFields(n) ==
    (IF Len(n.Actions) > 0
     THEN "actions" :> JArr([i \in 1..Len(n.Actions) |->
                               WebpushNotificationAction_Marshal(n.Actions[i])])
     ELSE EmptyObj)
    @@ OmitStr("title", n.Title) @@ OmitStr("body", n.Body)
    @@ OmitStr("icon", n.Icon) @@ OmitStr("badge", n.Badge)
    @@ OmitStr("dir", n.Direction) @@ OmitStr("image", n.Image)
    @@ OmitStr("lang", n.Language) @@ OmitBool("renotify", n.Renotify)
    @@ OmitBool("requireInteraction", n.RequireInteraction)
    @@ OmitBool("silent", n.Silent) @@ OmitStr("tag", n.Tag)
    @@ (IF n.Data # JNull THEN "data" :> n.Data ELSE EmptyObj)
    @@ OmitIntPtr("timestamp", n.TimestampMillis)
    @@ (IF Len(n.Vibrate) > 0
        THEN "vibrate" :> JArr([i \in 1..Len(n.Vibrate) |-> JNum(n.Vibrate[i])])
        ELSE EmptyObj)

(* json.Marshal of a map[string]any fails on a value it cannot encode. *)
MarshalMap(m) ==
    IF \E k \in DOMAIN m : m[k].t = "unsupported"
    THEN EncErr("json: unsupported type") ELSE EncOk(JObj(m))

WebpushNotification_MarshalJSON(n) ==
    MarshalMap(Overlay(WebpushNotification_standardFields(n), n.CustomData))

(* What is left of the wire object after the keys of std are deleted: the  *)
(* new CustomData, or old when nothing is left.                            *)
Remaining(allFields, std, old) ==
    LET left == DOMAIN allFields \ DOMAIN std
    IN  IF left # {} THEN [k \in left |-> allFields[k]] ELSE old

WebpushNotification_TypesOk(o) ==
    /\ \A k \in {"title", "body", "icon", "badge", "dir", "image", "lang", "tag"} :
           StrOk(o, k)
    /\ \A k \in {"renotify", "requireInteraction", "silent"} : BoolOk(o, k)
    /\ IntOk(o, "timestamp")
    /\ Has(o, "vibrate") =>
          /\ o["vibrate"].t = "arr"
          /\ \A i \in 1..Len(o["vibrate"].a) : IsInt(o["vibrate"].a[i])
    /\ Has(o, "actions") =>
          /\ o["actions"].t = "arr"
          /\ \A i \in 1..Len(o["actions"].a) :
               /\ o["actions"].a[i].t = "obj"
               /\ \A k \in {"action", "title", "icon"} : StrOk(o["actions"].a[i].o, k)

(* json.Unmarshal of b into the webpushNotificationInternal view of n *)
WebpushNotification_Internal(o) ==
    [Actions |-> IF Has(o, "actions")
                 THEN [i \in 1..Len(o["actions"].a) |->
                         WebpushNotificationAction(
                             GetStr(o["actions"].a[i].o, "action"),
                             GetStr(o["actions"].a[i].o, "title"),
                             GetStr(o["actions"].a[i].o, "icon"))]
                 ELSE <<>>,
     Title |-> GetStr(o, "title"), Body |-> GetStr(o, "body"),
     Icon |-> GetStr(o, "icon"), Badge |-> GetStr(o, "badge"),
     Direction |-> GetStr(o, "dir"),
     Data |-> IF Has(o, "data") THEN o["data"] ELSE JNull,
     Image |-> GetStr(o, "image"), Language |-> GetStr(o, "lang"),
     Renotify |-> GetBool(o, "renotify"),
     RequireInteraction |-> GetBool(o, "requireInteraction"),
     Silent |-> GetBool(o, "silent"), Tag |-> GetStr(o, "tag"),
     TimestampMillis |-> GetIntPtr(o, "timestamp"),
     Vibrate |-> IF Has(o, "vibrate")
                 THEN [i \in 1..Len(o["vibrate"].a) |-> o["vibrate"].a[i].n]
                 ELSE <<>>,
     CustomData |-> Nil]

WebpushNotification_UnmarshalJSON(j) ==
    IF j.t # "obj" THEN DecErr("json: cannot unmarshal into WebpushNotification")
    ELSE IF ~WebpushNotification_TypesOk(j.o)
    THEN DecErr("json: cannot unmarshal into WebpushNotification")
    ELSE With(WebpushNotification_Internal(j.o), LAMBDA n :
           DecOk([n EXCEPT !.CustomData =
                     Remaining(j.o, WebpushNotification_standardFields(n), Nil)]))


WebpushFCMOptions(link) == [Link |-> link]

WebpushConfig0 ==
    [Headers |-> Nil, Data |-> Nil, Notification |-> Nil, FCMOptions |-> Nil]

WebpushConfig_Marshal(w) ==
    With(IF w.Notification = Nil THEN EncOk(JNull)
         ELSE WebpushNotification_MarshalJSON(w.Notification), LAMBDA notif :
      IF notif.st # "ok" THEN notif
      ELSE EncOk(JObj(
             OmitStrMap("headers", w.Headers) @@ OmitStrMap("data", w.Data)
             @@ OmitPtr("notification", w.Notification, notif.j)
             @@ (IF w.FCMOptions = Nil THEN EmptyObj
                 ELSE "fcm_options" :> JObj(OmitStr("link", w.FCMOptions.Link))))))


WebpushConfig_TypesOk(o) ==
    /\ StrMapOk(o, "headers") /\ StrMapOk(o, "data")
    /\ Has(o, "fcm_options") =>
          (o["fcm_options"].t = "obj" /\ StrOk(o["fcm_options"].o, "link"))

WebpushConfig_Unmarshal(j) ==
    IF j.t # "obj" THEN DecErr("json: cannot unmarshal into WebpushConfig")
    ELSE With2(j.o,
               IF Has(j.o, "notification")
               THEN WebpushNotification_UnmarshalJSON(j.o["notification"])
               ELSE DecOk(Nil), LAMBDA o, notif :
      IF notif.st # "ok" \/ ~WebpushConfig_TypesOk(o)
      THEN DecErr("json: cannot unmarshal into WebpushConfig")
      ELSE DecOk(
        [Headers |-> GetStrMap(o, "headers"), Data |-> GetStrMap(o, "data"),
         Notification |-> notif.v,
         FCMOptions |-> IF Has(o, "fcm_options")
                        THEN WebpushFCMOptions(GetStr(o["fcm_options"].o, "link"))
                        ELSE Nil]))


(***************************************************************************)
(* APNSConfig: the payload, the aps dictionary, the alert and the sound.   *)
(***************************************************************************)
ApsAlert0 ==
    [Title |-> "", SubTitle |-> "", Body |-> "", LocKey |-> "", LocArgs |-> <<>>,
     TitleLocKey |-> "", TitleLocArgs |-> <<>>, SubTitleLocKey |-> "",
     SubTitleLocArgs |-> <<>>, ActionLocKey |-> "", LaunchImage |-> ""]

ApsAlert_Marshal(x) ==
    JObj(OmitStr("title", x.Title) @@ OmitStr("subtitle", x.SubTitle)
         @@ OmitStr("body", x.Body) @@ OmitStr("loc-key", x.LocKey)
         @@ OmitStrList("loc-args", x.LocArgs)
         @@ OmitStr("title-loc-key", x.TitleLocKey)
         @@ OmitStrList("title-loc-args", x.TitleLocArgs)
         @@ OmitStr("subtitle-loc-key", x.SubTitleLocKey)
         @@ OmitStrList("subtitle-loc-args", x.SubTitleLocArgs)
         @@ OmitStr("action-loc-key", x.ActionLocKey)
         @@ OmitStr("launch-image", x.LaunchImage))

(* json.Unmarshal(raw, &a.Alert) *)
ApsAlert_Unmarshal(j) ==
    IF j.t # "obj" THEN DecErr("json: cannot unmarshal into ApsAlert")
    ELSE
    LET o == j.o
    IN  IF ~ /\ \A k \in {"title", "subtitle", "body", "loc-key", "title-loc-key",
                          "subtitle-loc-key", "action-loc-key", "launch-image"} :
                    StrOk(o, k)
             /\ \A k \in {"loc-args", "title-loc-args", "subtitle-loc-args"} :
                    StrListOk(o, k)
        THEN DecErr("json: cannot unmarshal into ApsAlert")
        ELSE DecOk(
          [Title |-> GetStr(o, "title"), SubTitle |-> GetStr(o, "subtitle"),
           Body |-> GetStr(o, "body"), LocKey |-> GetStr(o, "loc-key"),
           LocArgs |-> GetStrList(o, "loc-args"),
           TitleLocKey |-> GetStr(o, "title-loc-key"),
           TitleLocArgs |-> GetStrList(o, "title-loc-args"),
           SubTitleLocKey |-> GetStr(o, "subtitle-loc-key"),
           SubTitleLocArgs |-> GetStrList(o, "subtitle-loc-args"),
           ActionLocKey |-> GetStr(o, "action-loc-key"),
           LaunchImage |-> GetStr(o, "launch-image")])

(* Volume is the float64 n/d. *)
CriticalSound(critical, name, volume) ==
    [Critical |-> critical, Name |-> name, Volume |-> volume]

CriticalSound_MarshalJSON(cs) ==
    JObj((IF cs.Critical THEN "critical" :> JNum(1) ELSE EmptyObj)
         @@ OmitStr("name", cs.Name)
         @@ (IF cs.Volume.n = 0 THEN EmptyObj
             ELSE "volume" :> JFrac(cs.Volume.n, cs.Volume.d)))

CriticalSound_UnmarshalJSON(j) ==
    IF j.t # "obj" THEN DecErr("json: cannot unmarshal into CriticalSound")
    ELSE
    LET o == j.o
    IN  IF ~(IntOk(o, "critical") /\ StrOk(o, "name") /\ KindOk(o, "volume", {"num"}))
        THEN DecErr("json: cannot unmarshal into CriticalSound")
        ELSE DecOk(CriticalSound(GetInt(o, "critical") = 1, GetStr(o, "name"),
                                 GetChan(o, "volume")))

Aps0 ==
    [AlertString |-> "", Alert |-> Nil, Badge |-> Nil, Sound |-> "",
     CriticalSound |-> Nil, ContentAvailable |-> FALSE, MutableContent |-> FALSE,
     Category |-> "", ThreadID |-> "", CustomData |-> Nil]

(* The keys Aps encodes its own fields under. *)
ApsKeys ==
    {"alert", "badge", "sound", "content-available", "mutable-content", "category",
     "thread-id"}

(* standardFields that knows the alert only as a string. *)
Aps_standardFields_NoAlertStruct(a) ==
    (IF a.AlertString # "" THEN "alert" :> JStr(a.AlertString) ELSE EmptyObj)
    @@ (IF a.ContentAvailable THEN "content-available" :> JNum(1) ELSE EmptyObj)
    @@ (IF a.MutableContent THEN "mutable-content" :> JNum(1) ELSE EmptyObj)
    @@ OmitIntPtr("badge", a.Badge)
    @@ (IF a.CriticalSound # Nil
        THEN "sound" :> CriticalSound_MarshalJSON(a.CriticalSound)
        ELSE IF a.Sound # "" THEN "sound" :> JStr(a.Sound)
        ELSE EmptyObj)
    @@ OmitStr("category", a.Category)
    @@ OmitStr("thread-id", a.ThreadID)

Aps_standardFields(a) ==
    (IF a.Alert # Nil THEN "alert" :> ApsAlert_Marshal(a.Alert)
     ELSE IF a.AlertString # "" THEN "alert" :> JStr(a.AlertString)
     ELSE EmptyObj)
    @@ (IF a.ContentAvailable THEN "content-available" :> JNum(1) ELSE EmptyObj)
    @@ (IF a.MutableContent THEN "mutable-content" :> JNum(1) ELSE EmptyObj)
    @@ OmitIntPtr("badge", a.Badge)
    @@ (IF a.CriticalSound # Nil
        THEN "sound" :> CriticalSound_MarshalJSON(a.CriticalSound)
        ELSE IF a.Sound # "" THEN "sound" :> JStr(a.Sound)
        ELSE EmptyObj)
    @@ OmitStr("category", a.Category)
    @@ OmitStr("thread-id", a.ThreadID)

Aps_MarshalJSON(a) == MarshalMap(Overlay(Aps_standardFields(a), a.CustomData))

Aps_TypesOk(o) ==
    /\ IntOk(o, "content-available") /\ IntOk(o, "mutable-content")
    /\ IntOk(o, "badge") /\ StrOk(o, "category")
    /\ StrOk(o, "thread-id")

(* The decoded Aps with a flag set by any wire integer other than 0. *)
Aps_Internal_NonZero(o, alertObj, soundObj) ==
    [AlertString |-> IF Has(o, "alert") /\ alertObj.st # "ok"
                     THEN o["alert"].s ELSE "",
     Alert |-> IF Has(o, "alert") /\ alertObj.st = "ok" THEN alertObj.v ELSE Nil,
     Badge |-> GetIntPtr(o, "badge"),
     Sound |-> IF Has(o, "sound") /\ soundObj.st # "ok" THEN o["sound"].s ELSE "",
     CriticalSound |-> IF Has(o, "sound") /\ soundObj.st = "ok"
                       THEN soundObj.v ELSE Nil,
     ContentAvailable |-> (GetInt(o, "content-available") # 0),
     MutableContent |-> (GetInt(o, "mutable-content") # 0),
     Category |-> GetStr(o, "category"),
     ThreadID |-> GetStr(o, "thread-id"),
     CustomData |-> Nil]

(* The decoded Aps before CustomData is set: alertObj and soundObj are the *)
(* attempts to decode "alert" and "sound" as structs.                      *)
Aps_Internal(o, alertObj, soundObj) ==
    [AlertString |-> IF Has(o, "alert") /\ alertObj.st # "ok"
                     THEN o["alert"].s ELSE "",
     Alert |-> IF Has(o, "alert") /\ alertObj.st = "ok" THEN alertObj.v ELSE Nil,
     Badge |-> GetIntPtr(o, "badge"),
     Sound |-> IF Has(o, "sound") /\ soundObj.st # "ok" THEN o["sound"].s ELSE "",
     CriticalSound |-> IF Has(o, "sound") /\ soundObj.st = "ok"
                       THEN soundObj.v ELSE Nil,
     ContentAvailable |-> (GetInt(o, "content-available") = 1),
     MutableContent |-> (GetInt(o, "mutable-content") = 1),
     Category |-> GetStr(o, "category"),
     ThreadID |-> GetStr(o, "thread-id"),
     CustomData |-> Nil]

(* Aps.UnmarshalJSON with the error of the second attempt on "alert"    *)
(* dropped.                                                               *)
Aps_UnmarshalJSON_NoStringError(j) ==
    IF j.t # "obj" THEN DecErr("json: cannot unmarshal into Aps")
    ELSE IF ~Aps_TypesOk(j.o) THEN DecErr("json: cannot unmarshal into Aps")
    ELSE With3(j.o,
               IF Has(j.o, "alert") THEN ApsAlert_Unmarshal(j.o["alert"])
               ELSE DecOk(Nil),
               IF Has(j.o, "sound") THEN CriticalSound_UnmarshalJSON(j.o["sound"])
               ELSE DecOk(Nil), LAMBDA o, alertObj, soundObj :
      IF Has(o, "sound") /\ soundObj.st # "ok" /\ o["sound"].t # "str"
      THEN DecErr("failed to unmarshal sound as a struct or a string")
      ELSE With(Aps_Internal(o, alertObj, soundObj), LAMBDA a :
             DecOk([a EXCEPT !.CustomData =
                       Remaining(o, Aps_standardFields(a), Nil)])))

Aps_UnmarshalJSON(j) ==
    IF j.t # "obj" THEN DecErr("json: cannot unmarshal into Aps")
    ELSE IF ~Aps_TypesOk(j.o) THEN DecErr("json: cannot unmarshal into Aps")
    ELSE With3(j.o,
               IF Has(j.o, "alert") THEN ApsAlert_Unmarshal(j.o["alert"])
               ELSE DecOk(Nil),
               IF Has(j.o, "sound") THEN CriticalSound_UnmarshalJSON(j.o["sound"])
               ELSE DecOk(Nil), LAMBDA o, alertObj, soundObj :
      IF Has(o, "alert") /\ alertObj.st # "ok" /\ o["alert"].t # "str"
      THEN DecErr("failed to unmarshal alert as a struct or a string")
      ELSE IF Has(o, "sound") /\ soundObj.st # "ok" /\ o["sound"].t # "str"
      THEN DecErr("failed to unmarshal sound as a struct or a string")
      ELSE With(Aps_Internal(o, alertObj, soundObj), LAMBDA a :
             DecOk([a EXCEPT !.CustomData =
                       Remaining(o, Aps_standardFields(a), Nil)])))


APNSPayload(aps, custom) == [Aps |-> aps, CustomData |-> custom]

(* The value under "aps" is the *Aps itself, whatever it is: a nil pointer  *)
(* encodes as null, and an Aps whose MarshalJSON fails cannot be encoded.  *)
APNSPayload_standardFields(p) ==
    "aps" :> (IF p.Aps = Nil THEN JNull
              ELSE With(Aps_MarshalJSON(p.Aps), LAMBDA aps :
                     IF aps.st = "ok" THEN aps.j ELSE JUnsupported))


APNSPayload_MarshalJSON(p) ==
    MarshalMap(Overlay(APNSPayload_standardFields(p), p.CustomData))

APNSPayload_UnmarshalJSON(j) ==
    IF j.t # "obj" THEN DecErr("json: cannot unmarshal into APNSPayload")
    ELSE With(IF Has(j.o, "aps") THEN Aps_UnmarshalJSON(j.o["aps"]) ELSE DecOk(Nil),
              LAMBDA aps :
      IF aps.st # "ok" THEN aps
      ELSE DecOk(APNSPayload(aps.v,
                   Remaining(j.o, APNSPayload_standardFields(APNSPayload(aps.v, Nil)),
                             Nil))))


APNSFCMOptions(label, image) == [AnalyticsLabel |-> label, ImageURL |-> image]

APNSConfig0 ==
    [Headers |-> Nil, Payload |-> Nil, FCMOptions |-> Nil, LiveActivityToken |-> ""]

APNSConfig_Marshal(c) ==
    With(IF c.Payload = Nil THEN EncOk(JNull)
         ELSE APNSPayload_MarshalJSON(c.Payload), LAMBDA payload :
      IF payload.st # "ok" THEN payload
      ELSE EncOk(JObj(
             OmitStrMap("headers", c.Headers)
             @@ OmitPtr("payload", c.Payload, payload.j)
             @@ (IF c.FCMOptions = Nil THEN EmptyObj
                 ELSE "fcm_options" :>
                        JObj(OmitStr("analytics_label", c.FCMOptions.AnalyticsLabel)
                             @@ OmitStr("image", c.FCMOptions.ImageURL)))
             @@ OmitStr("live_activity_token", c.LiveActivityToken))))


APNSConfig_TypesOk(o) ==
    /\ StrMapOk(o, "headers") /\ StrOk(o, "live_activity_token")
    /\ Has(o, "fcm_options") =>
          /\ o["fcm_options"].t = "obj"
          /\ StrOk(o["fcm_options"].o, "analytics_label")
          /\ StrOk(o["fcm_options"].o, "image")

APNSConfig_Unmarshal(j) ==
    IF j.t # "obj" THEN DecErr("json: cannot unmarshal into APNSConfig")
    ELSE With2(j.o,
               IF Has(j.o, "payload") THEN APNSPayload_UnmarshalJSON(j.o["payload"])
               ELSE DecOk(Nil), LAMBDA o, payload :
      IF payload.st # "ok" \/ ~APNSConfig_TypesOk(o)
      THEN DecErr("json: cannot unmarshal into APNSConfig")
      ELSE DecOk(
        [Headers |-> GetStrMap(o, "headers"), Payload |-> payload.v,
         FCMOptions |-> IF Has(o, "fcm_options")
                        THEN APNSFCMOptions(
                                 GetStr(o["fcm_options"].o, "analytics_label"),
                                 GetStr(o["fcm_options"].o, "image"))
                        ELSE Nil,
         LiveActivityToken |-> GetStr(o, "live_activity_token")]))


(***************************************************************************)
(* Message                                                                 *)
(***************************************************************************)
Notification(title, body, image) ==
    [Title |-> title, Body |-> body, ImageURL |-> image]

FCMOptions(label) == [AnalyticsLabel |-> label]

TopicPrefix == <<"/", "t", "o", "p", "i", "c", "s", "/">>

Message0 ==
    [Data |-> Nil, Notification |-> Nil, Android |-> Nil, Webpush |-> Nil,
     APNS |-> Nil, FCMOptions |-> Nil, Token |-> "", Topic |-> <<>>,
     Condition |-> ""]

Notification_Marshal(n) ==
    JObj(OmitStr("title", n.Title) @@ OmitStr("body", n.Body)
         @@ OmitStr("image", n.ImageURL))

Message_MarshalJSON(m) ==
    With3(IF m.Android = Nil THEN EncOk(JNull)
          ELSE AndroidConfig_MarshalJSON(m.Android),
          IF m.Webpush = Nil THEN EncOk(JNull) ELSE WebpushConfig_Marshal(m.Webpush),
          IF m.APNS = Nil THEN EncOk(JNull) ELSE APNSConfig_Marshal(m.APNS),
          LAMBDA android, webpush, apns :
      IF android.st # "ok" THEN android
      ELSE IF webpush.st # "ok" THEN webpush
      ELSE IF apns.st # "ok" THEN apns
      ELSE EncOk(JObj(
             OmitChars("topic", TrimPrefix(m.Topic, TopicPrefix))
             @@ OmitStrMap("data", m.Data)
             @@ (IF m.Notification = Nil THEN EmptyObj
                 ELSE "notification" :> Notification_Marshal(m.Notification))
             @@ OmitPtr("android", m.Android, android.j)
             @@ OmitPtr("webpush", m.Webpush, webpush.j)
             @@ OmitPtr("apns", m.APNS, apns.j)
             @@ (IF m.FCMOptions = Nil THEN EmptyObj
                 ELSE "fcm_options" :> AnalyticsLabel_Marshal(m.FCMOptions))
             @@ OmitStr("token", m.Token)
             @@ OmitStr("condition", m.Condition))))


Message_TypesOk(o) ==
    /\ CharsOk(o, "topic") /\ StrMapOk(o, "data")
    /\ StrOk(o, "token") /\ StrOk(o, "condition")
    /\ AnalyticsLabelOk(o, "fcm_options")
    /\ Has(o, "notification") =>
          /\ o["notification"].t = "obj"
          /\ \A k \in {"title", "body", "image"} : StrOk(o["notification"].o, k)

(* The assignment *m = Message{...} from the decoded wrapper; BareTopic is *)
(* the wire's "topic" member, copied as it is.                             *)
Message_FromTmp(o, android, webpush, apns, BareTopic) ==
    [Data |-> GetStrMap(o, "data"),
     Notification |-> IF Has(o, "notification")
                      THEN Notification(GetStr(o["notification"].o, "title"),
                                        GetStr(o["notification"].o, "body"),
                                        GetStr(o["notification"].o, "image"))
                      ELSE Nil,
     Android |-> android, Webpush |-> webpush, APNS |-> apns,
     FCMOptions |-> IF Has(o, "fcm_options")
                    THEN FCMOptions(GetStr(o["fcm_options"].o, "analytics_label"))
                    ELSE Nil,
     Token |-> GetStr(o, "token"),
     Topic |-> BareTopic,
     Condition |-> GetStr(o, "condition")]

Message_UnmarshalJSON(j) ==
    IF j.t # "obj" THEN DecErr("json: cannot unmarshal into Message")
    ELSE With3(IF Has(j.o, "android") THEN AndroidConfig_UnmarshalJSON(j.o["android"])
               ELSE DecOk(Nil),
               IF Has(j.o, "webpush") THEN WebpushConfig_Unmarshal(j.o["webpush"])
               ELSE DecOk(Nil),
               IF Has(j.o, "apns") THEN APNSConfig_Unmarshal(j.o["apns"])
               ELSE DecOk(Nil), LAMBDA android, webpush, apns :
      IF android.st = "panic" THEN android
      ELSE IF android.st # "ok" \/ webpush.st # "ok" \/ apns.st # "ok"
                \/ ~Message_TypesOk(j.o)
      THEN DecErr("json: cannot unmarshal into Message")
      ELSE DecOk(Message_FromTmp(j.o, android.v, webpush.v, apns.v,
                                 GetChars(j.o, "topic"))))


(***************************************************************************)
(* Validation.  An error is [msg, key]; NoErr is the nil error.  A         *)
(* validator is the set of errors it can return: one, except where the     *)
(* code ranges over a map, whose iteration order Go leaves unspecified.    *)
(***************************************************************************)
NoErr == [msg |-> "", key |-> ""]

Err(text) == [msg |-> text, key |-> ""]

ErrKey(text, key) == [msg |-> text, key |-> key]

(* if err := A; err != nil { return err }; return B *)
Then(A, B) == (A \ {NoErr}) \cup (IF NoErr \in A THEN B ELSE {})

(* url.ParseRequestURI on the URLs of this model: the empty string and a   *)
(* string with neither a scheme nor a leading "/" are errors; an absolute  *)
(* path parses, with an empty scheme.                                      *)
ParseRequestURI(u) ==
    CASE u = "https://example.com/i.png" -> [ok |-> TRUE, Scheme |-> "https"]
      [] u = "http://example.com/i.png"  -> [ok |-> TRUE, Scheme |-> "http"]
      [] u = "/i.png"                    -> [ok |-> TRUE, Scheme |-> ""]
      [] OTHER                           -> [ok |-> FALSE, Scheme |-> ""]

isValidURL(link) == ParseRequestURI(link).ok

IsAlnum(c) ==
    \/ IsDigit(c)
    \/ c \in {"a", "b", "c", "d", "e", "f", "g", "h", "i", "j", "k", "l", "m", "n",
              "o", "p", "q", "r", "s", "t", "u", "v", "w", "x", "y", "z"}
    \/ c \in {"A", "B", "C", "D", "E", "F", "G", "H", "I", "J", "K", "L", "M", "N",
              "O", "P", "Q", "R", "S", "T", "U", "V", "W", "X", "Y", "Z"}

(* The pattern with * in place of +: the empty name matches. *)
bareTopicNamePattern_Star(cs) ==
    \A i \in 1..Len(cs) : IsAlnum(cs[i]) \/ cs[i] \in {"-", "_", ".", "~", "%"}

(* ^[a-zA-Z0-9-_.~%]+$ *)
bareTopicNamePattern(cs) ==
    /\ Len(cs) >= 1
    /\ \A i \in 1..Len(cs) : IsAlnum(cs[i]) \/ cs[i] \in {"-", "_", ".", "~", "%"}

(* ^#[0-9a-fA-F]{6}$ *)
colorPattern(cs) ==
    Len(cs) = 7 /\ cs[1] = "#" /\ \A i \in 2..7 : IsHexDigit(cs[i])

(* ^#[0-9a-fA-F]{6}([0-9a-fA-F]{2})?$ *)
colorWithAlphaPattern(cs) ==
    Len(cs) \in {7, 9} /\ cs[1] = "#" /\ \A i \in 2..Len(cs) : IsHexDigit(cs[i])

(* countNonEmpty that stops at the first non-empty string. *)
countNonEmpty_First(ss) == IF \E i \in 1..Len(ss) : ss[i] THEN 1 ELSE 0

RECURSIVE countNonEmpty(_)
countNonEmpty(ss) ==
    IF ss = <<>> THEN 0
    ELSE (IF Head(ss) THEN 1 ELSE 0) + countNonEmpty(Tail(ss))

validateNotification(notification) ==
    IF notification = Nil THEN {NoErr}
    ELSE IF notification.ImageURL # "" /\ ~isValidURL(notification.ImageURL)
    THEN {ErrKey("invalid image URL", notification.ImageURL)}
    ELSE {NoErr}

(* validateLightSettings that lets an empty color through, as            *)
(* validateAndroidNotification does for its own color.                    *)
validateLightSettings_EmptyColor(light) ==
    IF light = Nil THEN {NoErr}
    ELSE IF light.Color # <<>> /\ ~colorWithAlphaPattern(light.Color)
    THEN {Err("color must be in #RRGGBB or #RRGGBBAA form")}
    ELSE IF light.LightOnDurationMillis < 0
    THEN {Err("lightOnDuration must not be negative")}
    ELSE IF light.LightOffDurationMillis < 0
    THEN {Err("lightOffDuration must not be negative")}
    ELSE {NoErr}

validateLightSettings(light) ==
    IF light = Nil THEN {NoErr}
    ELSE IF ~colorWithAlphaPattern(light.Color)
    THEN {Err("color must be in #RRGGBB or #RRGGBBAA form")}
    ELSE IF light.LightOnDurationMillis < 0
    THEN {Err("lightOnDuration must not be negative")}
    ELSE IF light.LightOffDurationMillis < 0
    THEN {Err("lightOffDuration must not be negative")}
    ELSE {NoErr}

validateAndroidNotification(notification) ==
    IF notification = Nil THEN {NoErr}
    ELSE IF notification.Color # <<>> /\ ~colorPattern(notification.Color)
    THEN {Err("color must be in the #RRGGBB form")}
    ELSE IF Len(notification.TitleLocArgs) > 0 /\ notification.TitleLocKey = ""
    THEN {Err("titleLocKey is required when specifying titleLocArgs")}
    ELSE IF Len(notification.BodyLocArgs) > 0 /\ notification.BodyLocKey = ""
    THEN {Err("bodyLocKey is required when specifying bodyLocArgs")}
    ELSE IF notification.ImageURL # "" /\ ~isValidURL(notification.ImageURL)
    THEN {ErrKey("invalid image URL", notification.ImageURL)}
    ELSE IF \E i \in 1..Len(notification.VibrateTimingMillis) :
                notification.VibrateTimingMillis[i] < 0
    THEN {Err("vibrateTimingMillis must not be negative")}
    ELSE validateLightSettings(notification.LightSettings)

validateAndroidConfig(config) ==
    IF config = Nil THEN {NoErr}
    ELSE IF config.TTL # Nil /\ DurNegative(config.TTL.dur)
    THEN {Err("ttl duration must not be negative")}
    ELSE IF config.Priority # "" /\ config.Priority # "normal"
              /\ config.Priority # "high"
    THEN {Err("priority must be 'normal' or 'high'")}
    ELSE validateAndroidNotification(config.Notification)

(* for k := range custom { if _, contains := m[k]; contains { return ... } } *)
Collisions(m, custom, text) ==
    LET hit == MapKeys(custom) \cap DOMAIN m
    IN  IF hit = {} THEN {NoErr} ELSE {ErrKey(text, k) : k \in hit}

validateApsAlert(alert) ==
    IF alert = Nil THEN {NoErr}
    ELSE IF Len(alert.TitleLocArgs) > 0 /\ alert.TitleLocKey = ""
    THEN {Err("titleLocKey is required when specifying titleLocArgs")}
    ELSE IF Len(alert.SubTitleLocArgs) > 0 /\ alert.SubTitleLocKey = ""
    THEN {Err("subtitleLocKey is required when specifying subtitleLocArgs")}
    ELSE IF Len(alert.LocArgs) > 0 /\ alert.LocKey = ""
    THEN {Err("locKey is required when specifying locArgs")}
    ELSE {NoErr}

validateAps(aps) ==
    IF aps = Nil THEN {NoErr}
    ELSE IF aps.Alert # Nil /\ aps.AlertString # ""
    THEN {Err("multiple alert specifications")}
    ELSE IF aps.CriticalSound # Nil /\ aps.Sound # ""
    THEN {Err("multiple sound specifications")}
    ELSE IF aps.CriticalSound # Nil
              /\ (aps.CriticalSound.Volume.n < 0
                  \/ aps.CriticalSound.Volume.n > aps.CriticalSound.Volume.d)
    THEN {Err("critical sound volume must be in the interval [0, 1]")}
    ELSE Then(Collisions(Aps_standardFields(aps), aps.CustomData,
                         "multiple specifications for the key: %q"),
              validateApsAlert(aps.Alert))

validateAPNSPayload(payload) ==
    IF payload = Nil THEN {NoErr}
    ELSE Then(Collisions(APNSPayload_standardFields(payload), payload.CustomData,
                         "multiple specifications for the key %q"),
              validateAps(payload.Aps))

validateAPNSConfig(config) ==
    IF config = Nil THEN {NoErr}
    ELSE IF config.FCMOptions # Nil /\ config.FCMOptions.ImageURL # ""
              /\ ~isValidURL(config.FCMOptions.ImageURL)
    THEN {ErrKey("invalid image URL", config.FCMOptions.ImageURL)}
    ELSE validateAPNSPayload(config.Payload)

validateWebpushConfig(webpush) ==
    IF webpush = Nil THEN {NoErr}
    ELSE IF webpush.Notification = Nil THEN {NoErr}
    ELSE
    LET dir == webpush.Notification.Direction
    IN  IF dir # "" /\ dir # "ltr" /\ dir # "rtl" /\ dir # "auto"
        THEN {Err("direction must be 'ltr', 'rtl' or 'auto'")}
        ELSE Then(Collisions(WebpushNotification_standardFields(webpush.Notification),
                             webpush.Notification.CustomData,
                             "multiple specifications for the key %q"),
                  IF webpush.FCMOptions # Nil
                  THEN LET link == webpush.FCMOptions.Link
                           p    == ParseRequestURI(link)
                       IN  IF ~p.ok THEN {ErrKey("invalid link URL", link)}
                           ELSE IF p.Scheme # "https"
                           THEN {ErrKey("invalid link URL; want scheme https", link)}
                           ELSE {NoErr}
                  ELSE {NoErr})

(* The targeting check on its own: the count of non-empty fields is 1. *)
TargetErr == Err("exactly one of token, topic or condition must be specified")

(* validateMessage with the web-push block checked before the Android   *)
(* block.                                                                *)
validateMessage_WebpushFirst(message) ==
    IF message = Nil THEN {Err("message must not be nil")}
    ELSE
    LET targets == countNonEmpty(<<message.Token # "", message.Condition # "",
                                   message.Topic # <<>>>>)
    IN  IF targets # 1 THEN {TargetErr}
        ELSE IF message.Topic # <<>>
                  /\ ~bareTopicNamePattern(TrimPrefix(message.Topic, TopicPrefix))
        THEN {Err("malformed topic name")}
        ELSE Then(validateNotification(message.Notification),
             Then(validateWebpushConfig(message.Webpush),
             Then(validateAndroidConfig(message.Android),
                  validateAPNSConfig(message.APNS))))

validateMessage(message) ==
    IF message = Nil THEN {Err("message must not be nil")}
    ELSE
    LET targets == countNonEmpty(<<message.Token # "", message.Condition # "",
                                   message.Topic # <<>>>>)
    IN  IF targets # 1 THEN {TargetErr}
        ELSE IF message.Topic # <<>>
                  /\ ~bareTopicNamePattern(TrimPrefix(message.Topic, TopicPrefix))
        THEN {Err("malformed topic name")}
        ELSE Then(validateNotification(message.Notification),
             Then(validateAndroidConfig(message.Android),
             Then(validateWebpushConfig(message.Webpush),
                  validateAPNSConfig(message.APNS))))

(***************************************************************************)
(* Client.Send.  The call is followed up to httpClient.Do, whose answer    *)
(* is the transport's; log is the sequence of calls made so far.           *)
(***************************************************************************)
Ret(id, err) == [id |-> id, err |-> err]

(* What the transport can answer to one Do: an error, a body that cannot   *)
(* be read, a status other than 200, or 200 with a body.                   *)
HTTPOutcomes ==
    {[err |-> TRUE, readErr |-> FALSE, StatusCode |-> 0, body |-> JNull],
     [err |-> FALSE, readErr |-> TRUE, StatusCode |-> 200, body |-> JNull],
     [err |-> FALSE, readErr |-> FALSE, StatusCode |-> 400,
      body |-> JObj("error" :> JObj(EmptyObj))],
     [err |-> FALSE, readErr |-> FALSE, StatusCode |-> 503, body |-> JStr("")],
     [err |-> FALSE, readErr |-> FALSE, StatusCode |-> 200,
      body |-> JObj("name" :> JStr("projects/p/messages/1"))],
     [err |-> FALSE, readErr |-> FALSE, StatusCode |-> 200,
      body |-> JObj("name" :> JNum(1))],
     [err |-> FALSE, readErr |-> FALSE, StatusCode |-> 200, body |-> JStr("bad")]}

(* Client.send up to the call of Do: [pc, log, ret, wire]. *)
Client_send(message, endpointOK) ==
    With(Message_MarshalJSON(message), LAMBDA body :
      IF body.st = "panic"
      THEN [pc |-> "panicked", log |-> <<"json.Marshal">>,
            ret |-> Ret("", NoErr), wire |-> body]
      ELSE IF body.st = "err"
      THEN [pc |-> "returned", log |-> <<"json.Marshal">>,
            ret |-> Ret("", Err(body.e)), wire |-> body]
      ELSE IF ~endpointOK
      THEN [pc |-> "returned", log |-> <<"json.Marshal", "http.NewRequest">>,
            ret |-> Ret("", Err("http.NewRequestWithContext")), wire |-> body]
      ELSE [pc |-> "Do", log |-> <<"json.Marshal", "http.NewRequest", "Do">>,
            ret |-> Ret("", NoErr), wire |-> body])


(* Client.send, recorded after the call of validateMessage. *)
Client_Send_validated(s) == [s EXCEPT !.log = <<"validateMessage">> \o s.log]

(* Client.Send that goes on to send whatever validateMessage returned for  *)
(* a message that is not nil.                                              *)
Client_Send_Unchecked(message, v, endpointOK) ==
    IF message = Nil
    THEN [pc |-> "returned", log |-> <<"validateMessage">>, ret |-> Ret("", v),
          wire |-> EncOk(JNull)]
    ELSE Client_Send_validated(Client_send(message, endpointOK))


(* Client.Send, with v the error validateMessage returns. *)
Client_Send(message, v, endpointOK) ==
    IF v # NoErr
    THEN [pc |-> "returned", log |-> <<"validateMessage">>, ret |-> Ret("", v),
          wire |-> EncOk(JNull)]
    ELSE Client_Send_validated(Client_send(message, endpointOK))


(* Client.send after Do has returned h. *)
Client_send_after(h) ==
    IF h.err THEN Ret("", Err("c.httpClient.Do"))
    ELSE IF h.readErr THEN Ret("", Err("io.ReadAll"))
    ELSE IF h.StatusCode # 200 THEN Ret("", Err("code"))
    ELSE IF h.body.t # "obj" THEN Ret("", Err("json.Unmarshal(b, &errResp)"))
    ELSE IF ~StrOk(h.body.o, "name") THEN Ret("", Err("json.Unmarshal(b, &resp)"))
    ELSE Ret(GetStr(h.body.o, "name"), NoErr)

(***************************************************************************)
(* The messages and wire documents the operations are applied to.          *)
(***************************************************************************)
TopicNews == <<"n", "e", "w", "s">>

Topics ==
    {<<>>, TopicNews, TopicPrefix \o TopicNews, TopicPrefix,
     <<"a", "/", "b">>, <<"a", " ", "b">>, <<"A", "-", "_", ".", "~", "%", "9">>,
     TopicPrefix \o TopicPrefix \o TopicNews}

GoodURL == "https://example.com/i.png"

Notifications ==
    {Nil, Notification("Test", "Push", ""), Notification("Test", "", GoodURL),
     Notification("", "", "example.com/i.png"), Notification("", "Push", "/i.png")}

(* Every combination of the three targeting fields. *)
TargetMessages ==
    {[Message0 EXCEPT !.Token = tk, !.Topic = tp, !.Condition = c,
                      !.Notification = n, !.Data = d] :
        tk \in {"", "abc"}, tp \in Topics, c \in {"", "'a' in topics"},
        n \in Notifications, d \in {Nil, "force_show" :> "1"}}

Red == <<"#", "F", "F", "0", "0", "0", "0">>

MaxMillis == 2

(* Durations in milliseconds: whole seconds, fractions, and a negative one. *)
MillisCases == {0 - 1} \cup {k * 750 : k \in 0..MaxMillis}

LightSettingsCases ==
    {LightSettings(c, on, 200) :
        c \in {Red, <<"#", "0", "A", "0", "B", "0", "C">>,
               <<"#", "F", "F", "0", "0", "0", "0", "8", "0">>,
               <<"#", "a", "b", "c", "d", "e", "f">>,
               <<"#", "G", "G", "0", "0", "0", "0">>, <<"#", "F", "F">>, <<>>},
        on \in MillisCases}
    \cup {LightSettings(Red, 0, 0 - 1), LightSettings(<<"#", "G", "G">>, 0, 200)}

AndroidNotifications ==
    {[AndroidNotification0 EXCEPT !.LightSettings = l] : l \in LightSettingsCases}
    \cup {[AndroidNotification0 EXCEPT !.Color = c, !.VibrateTimingMillis = v,
                                       !.Title = "T"] :
            c \in {<<>>, Red, <<"#", "F", "F", "0", "0", "0", "0", "8", "0">>},
            v \in {<<>>} \cup {<<a, b>> : a, b \in MillisCases}}
    \cup {[AndroidNotification0 EXCEPT !.Priority = p, !.Visibility = vi,
                                       !.Proxy = px] :
            p \in 0..PriorityMax, vi \in 0..VisibilitySecret,
            px \in 0..ProxyIfPriorityLowered}
    \cup {[AndroidNotification0 EXCEPT !.TitleLocArgs = ta, !.TitleLocKey = tk,
                                       !.BodyLocArgs = ba, !.ImageURL = u,
                                       !.EventTimestamp = ts,
                                       !.NotificationCount = nc, !.Sticky = st] :
            ta \in {<<>>, <<"x">>}, tk \in {"", "k"}, ba \in {<<>>, <<"y">>},
            u \in {"", "example.com/i.png"}, ts \in {Nil, TimePtr(7)},
            nc \in {Nil, IntPtr(0)}, st \in BOOLEAN}

MaxTTL == 2

TTLCases ==
    {Nil, DurPtr(Dur(90, 0)), DurPtr(Dur(0 - 1, 0)), DurPtr(Dur(0, 0 - 1))}
    \cup {DurPtr(Dur(sc, n)) : sc \in 0..MaxTTL, n \in {0, 1, 500000000}}

AndroidConfigs ==
    {[AndroidConfig0 EXCEPT !.TTL = ttl, !.Priority = p, !.DirectBootOK = b] :
        ttl \in TTLCases, p \in {"", "high", "low"}, b \in BOOLEAN}
    \cup {[AndroidConfig0 EXCEPT !.Notification = n, !.CollapseKey = "k",
                                 !.FCMOptions = AndroidFCMOptions("label")] :
            n \in AndroidNotifications}

CustomStr == JStr("bar")

WebpushCustomData ==
    {Nil, "foo" :> CustomStr, "title" :> JStr("X"),
     ("foo" :> CustomStr) @@ ("title" :> JStr("X")),
     "silent" :> JBool(FALSE),
     ("title" :> JStr("X")) @@ ("silent" :> JBool(TRUE)),
     "foo" :> JUnsupported}

WebpushNotifications ==
    {[WebpushNotification0 EXCEPT !.Title = ti, !.Silent = s, !.Direction = d,
                                  !.CustomData = cd] :
        ti \in {"", "T"}, s \in BOOLEAN, d \in {"", "ltr", "up"},
        cd \in WebpushCustomData}
    \cup {[WebpushNotification0 EXCEPT
              !.Actions = <<WebpushNotificationAction("open", "Open", "")>>,
              !.Data = JStr("payload"), !.TimestampMillis = IntPtr(0),
              !.Vibrate = <<100, 50>>, !.Renotify = TRUE, !.CustomData = cd] :
            cd \in WebpushCustomData}

LinkCases == {"", GoodURL, "http://example.com/i.png", "example.com/i.png", "/i.png"}

WebpushConfigs ==
    {[WebpushConfig0 EXCEPT !.Notification = n] : n \in WebpushNotifications}
    \cup {[WebpushConfig0 EXCEPT !.Notification = n,
                                 !.FCMOptions = WebpushFCMOptions(l),
                                 !.Headers = "TTL" :> "60"] :
            n \in {Nil, [WebpushNotification0 EXCEPT !.Title = "T"]}, l \in LinkCases}

ApsAlerts ==
    {Nil, [ApsAlert0 EXCEPT !.Title = "A", !.Body = "B"], ApsAlert0,
     [ApsAlert0 EXCEPT !.LocArgs = <<"x">>],
     [ApsAlert0 EXCEPT !.LocArgs = <<"x">>, !.LocKey = "k"]}

CriticalSounds ==
    {Nil, CriticalSound(TRUE, "siren", Chan(1, 2)), CriticalSound(FALSE, "", Chan(3, 2)),
     CriticalSound(FALSE, "", Chan(0, 1))}

ApsCustomData ==
    {Nil, "foo" :> CustomStr, "alert" :> JStr("X"),
     "content-available" :> JNum(0),
     ("alert" :> JStr("X")) @@ ("sound" :> JStr("Y"))}

ApsCases ==
    {[Aps0 EXCEPT !.AlertString = as, !.Alert = al, !.Sound = so,
                  !.CriticalSound = cs, !.ContentAvailable = ca,
                  !.MutableContent = mc, !.CustomData = cd] :
        as \in {"", "hi"}, al \in ApsAlerts, so \in {"", "default"},
        cs \in CriticalSounds, ca \in BOOLEAN, mc \in BOOLEAN, cd \in {Nil}}
    \cup {[Aps0 EXCEPT !.AlertString = as, !.Sound = so, !.ContentAvailable = ca,
                       !.Badge = b, !.Category = c, !.CustomData = cd] :
            as \in {"", "hi"}, so \in {"", "default"}, ca \in BOOLEAN,
            b \in {Nil, IntPtr(0)}, c \in {"", "cat"}, cd \in ApsCustomData}

APNSPayloads ==
    {APNSPayload(a, Nil) : a \in {Nil} \cup ApsCases}
    \cup {APNSPayload(a, cd) :
            a \in {Nil, [Aps0 EXCEPT !.AlertString = "hi"]},
            cd \in {"foo" :> CustomStr, "aps" :> JStr("X"), "foo" :> JUnsupported}}

APNSConfigs ==
    {[APNSConfig0 EXCEPT !.Payload = p] : p \in {Nil} \cup APNSPayloads}
    \cup {[APNSConfig0 EXCEPT !.FCMOptions = APNSFCMOptions("l", u),
                              !.LiveActivityToken = "t"] :
            u \in {"", GoodURL, "example.com/i.png"}}

Token1 == [Message0 EXCEPT !.Token = "abc"]

(* Messages that break several rules at once: every choice of a broken or *)
(* absent part for the target, the topic, the notification and the three  *)
(* platform blocks.                                                        *)
MultiFaultMessages ==
    {[Message0 EXCEPT !.Token = tk, !.Topic = tp, !.Notification = n,
                      !.Android = a, !.Webpush = w, !.APNS = ap] :
        tk \in {"", "abc"}, tp \in {<<>>, <<"a", "/", "b">>},
        n \in {Nil, Notification("", "", "example.com/i.png")},
        a \in {Nil, [AndroidConfig0 EXCEPT !.Priority = "low"]},
        w \in {Nil, [WebpushConfig0 EXCEPT
                        !.Notification = [WebpushNotification0 EXCEPT
                                             !.Direction = "up"]]},
        ap \in {Nil, [APNSConfig0 EXCEPT
                         !.FCMOptions = APNSFCMOptions("l", "example.com/i.png")]}}

Messages ==
    TargetMessages
    \cup MultiFaultMessages
    \cup {[Token1 EXCEPT !.Android = a] : a \in AndroidConfigs}
    \cup {[Token1 EXCEPT !.Webpush = w] : w \in WebpushConfigs}
    \cup {[Token1 EXCEPT !.APNS = a] : a \in APNSConfigs}
    \cup {[Token1 EXCEPT !.FCMOptions = FCMOptions("label"),
                         !.Notification = Notification("Test", "Push", "")]}

(* Wire documents that did not come out of the encoder. *)
WireMessage(members) == EncOk(JObj(("token" :> JStr("abc")) @@ members))

WireWebpushNotification(o) ==
    WireMessage("webpush" :> JObj("notification" :> JObj(o)))

WireAPNSPayload(o) == WireMessage("apns" :> JObj("payload" :> JObj(o)))

WireAps(o) == WireAPNSPayload("aps" :> JObj(o))

WireAndroidNotification(o) ==
    WireMessage("android" :> JObj("notification" :> JObj(o)))

(* key :> v for every v of vs, and the object without the key. *)
Optional(key, vs) == {EmptyObj} \cup {key :> v : v \in vs}

MaxWireInt == 2

WireFlagValues == {JNum(k) : k \in (0 - 1)..MaxWireInt} \cup {JNull, JBool(TRUE)}

WireAlertValues ==
    {JStr("hi"), JStr(""), JNull, JNum(5), JBool(TRUE),
     JObj(("title" :> JStr("A")) @@ ("loc-args" :> JArr(<<JStr("x")>>))),
     JObj(EmptyObj), JObj("title" :> JNum(5))}

WireSoundValues ==
    {JStr("default"), JNum(5), JObj("name" :> JNum(5)),
     JObj(("critical" :> JNum(1)) @@ ("name" :> JStr("siren"))
          @@ ("volume" :> JFrac(1, 2)))}

(* Android notification overrides with enum tokens inside and outside the *)
(* three token sets.                                                       *)
WireEnumDocs ==
    {WireAndroidNotification(pr @@ vi @@ px) :
        pr \in Optional("notification_priority",
                        {JStr("PRIORITY_MAX"), JStr(""), JStr("high"), JNull}),
        vi \in Optional("visibility",
                        {JStr("PUBLIC"), JStr("HIDDEN"), JStr(""), JNum(1)}),
        px \in Optional("proxy",
                        {JStr("IF_PRIORITY_LOWERED"), JStr("MAYBE"), JStr("")})}

WireDocs ==
    {EncOk(JObj("topic" :> JChars(tp))) : tp \in Topics \ {<<>>}}
    \cup WireEnumDocs
    \cup {WireMessage("topic" :> JChars(TopicPrefix \o TopicNews)),
          EncOk(JStr("abc")), WireMessage("token" :> JNum(5))}
    \cup {WireWebpushNotification(ti @@ si @@ cu @@ di) :
            ti \in Optional("title", {JStr("T"), JStr(""), JNull, JNum(5)}),
            si \in Optional("silent", {JBool(TRUE), JBool(FALSE)}),
            cu \in Optional("foo", {CustomStr}),
            di \in Optional("timestamp", {JNum(0)})}
    \cup {WireAps(ca @@ mc @@ al @@ cu) :
            ca \in Optional("content-available", WireFlagValues),
            mc \in Optional("mutable-content", {JNum(0), JNum(1)}),
            al \in Optional("alert", WireAlertValues),
            cu \in Optional("foo", {CustomStr})}
    \cup {WireAps(so @@ al @@ ba) :
            so \in Optional("sound", WireSoundValues),
            al \in Optional("alert", {JStr("hi")}),
            ba \in Optional("badge", {JNum(0), JNum(3), JStr("3")})}
    \cup {WireAPNSPayload(ap @@ cu) :
            ap \in Optional("aps", {JNull, JObj(EmptyObj), JStr("x")}),
            cu \in Optional("foo", {CustomStr})}
    \cup {WireAndroidNotification(pr @@ li) :
            pr \in Optional("notification_priority",
                            {JStr("PRIORITY_HIGH"), JStr("PRIORITY_NONE")}),
            li \in Optional("light_settings",
                  {JObj(("light_on_duration" :> JChars(<<"1", "s">>))
                        @@ ("light_off_duration" :> JChars(<<"2", "s">>))),
                   JObj(("color" :> color_Marshal(color(Chan(1, 1), Chan(0, 1),
                                                        Chan(0, 1), Chan(1, 1))))
                        @@ ("light_on_duration" :> JChars(<<"1", "s">>))
                        @@ ("light_off_duration" :> JChars(<<"2", "s">>)))})}

(***************************************************************************)
(* The message operations: a message is validated, encoded and decoded    *)
(* back, or sent; a wire document is decoded.                              *)
(***************************************************************************)
Init ==
    /\ dur = Unused /\ str = Unused /\ parsed = Unused
    /\ verr = NoErr
    /\ dec = DecOk(Nil)
    /\ log = <<>>
    /\ ret = Ret("", NoErr)
    /\ \/ pc = "new" /\ msg \in Messages \cup {Nil} /\ wire = EncOk(JNull)
       \/ pc = "wire" /\ msg = Nil /\ wire \in WireDocs

(* Message.IsValid / validateMessage *)
IsValid ==
    /\ pc = "new"
    /\ verr' \in validateMessage(msg)
    /\ pc' = "validated"
    /\ UNCHANGED <<dur, str, parsed, msg, wire, dec, log, ret>>

(* MarshalJSON that stores the bare topic it computes back in m.Topic. *)
MarshalJSON_StoresBareTopic ==
    /\ pc = "new"
    /\ msg # Nil
    /\ wire' = Message_MarshalJSON(msg)
    /\ msg' = [msg EXCEPT !.Topic = TrimPrefix(msg.Topic, TopicPrefix)]
    /\ pc' = "encoded"
    /\ UNCHANGED <<dur, str, parsed, verr, dec, log, ret>>

(* json.Marshal(message) *)
MarshalJSON ==
    /\ pc = "new"
    /\ msg # Nil
    /\ wire' = Message_MarshalJSON(msg)
    /\ pc' = "encoded"
    /\ UNCHANGED <<dur, str, parsed, msg, verr, dec, log, ret>>

(* json.Unmarshal(wire, &message) *)
UnmarshalJSON ==
    /\ pc \in {"encoded", "wire"}
    /\ wire.st = "ok"
    /\ dec' = Message_UnmarshalJSON(wire.j)
    /\ pc' = IF pc = "encoded" THEN "decoded" ELSE "wireDecoded"
    /\ UNCHANGED <<dur, str, parsed, msg, verr, wire, log, ret>>

(* Client.Send, up to its return or to the call of Do. *)
Send ==
    /\ pc = "new"
    /\ \E v \in validateMessage(msg), endpointOK \in BOOLEAN :
          /\ verr' = v
          /\ \E s \in {Client_Send(msg, v, endpointOK)} :
                /\ pc' = s.pc
                /\ log' = s.log
                /\ ret' = s.ret
                /\ wire' = s.wire
    /\ UNCHANGED <<dur, str, parsed, msg, dec>>

(* Do returns and Client.send finishes. *)
DoReturns ==
    /\ pc = "Do"
    /\ \E h \in HTTPOutcomes : ret' = Client_send_after(h)
    /\ pc' = "returned"
    /\ UNCHANGED <<dur, str, parsed, msg, verr, wire, dec, log>>

Next == IsValid \/ MarshalJSON \/ UnmarshalJSON \/ Send \/ DoReturns

Spec == Init /\ [][Next]_vars

(***************************************************************************)
(* The records of a message and of a wire document the properties read.    *)
(***************************************************************************)
WebpushNotificationOf(m) ==
    IF m # Nil /\ m.Webpush # Nil THEN m.Webpush.Notification ELSE Nil

APNSPayloadOf(m) == IF m # Nil /\ m.APNS # Nil THEN m.APNS.Payload ELSE Nil

ApsOf(m) == IF APNSPayloadOf(m) # Nil THEN APNSPayloadOf(m).Aps ELSE Nil

(* The member path of a JSON document, JNull where it leaves the document. *)
RECURSIVE At(_, _)
At(j, path) ==
    IF path = <<>> THEN j
    ELSE IF j.t = "obj" /\ Head(path) \in DOMAIN j.o
    THEN At(j.o[Head(path)], Tail(path))
    ELSE JNull

WireWebpush == At(wire.j, <<"webpush", "notification">>)

WirePayload == At(wire.j, <<"apns", "payload">>)

WireApsOf == At(wire.j, <<"apns", "payload", "aps">>)

(* The number of non-empty fields among Token, Topic and Condition. *)
Targets(m) ==
    Cardinality({f \in {"Token", "Topic", "Condition"} :
                    \/ f = "Token" /\ m.Token # ""
                    \/ f = "Topic" /\ m.Topic # <<>>
                    \/ f = "Condition" /\ m.Condition # ""})

(* C1: for a non-nil message, validateMessage returns an error when the    *)
(* number of non-empty fields among Token, Topic and Condition is 0, 2 or  *)
(* 3; when it is 1 the targeting check passes: an error returned then is   *)
(* not the targeting error.                                                *)
TargetingExclusive ==
    (pc = "validated" /\ msg # Nil) =>
        /\ Targets(msg) \in {0, 2, 3} => verr # NoErr
        /\ Targets(msg) = 1 => verr # TargetErr

TargetingExclusiveWitness ==
    /\ pc = "validated" /\ msg # Nil
    /\ msg.Token # "" /\ msg.Topic # <<>> /\ msg.Condition = ""
    /\ verr = TargetErr

(* The number of calls of Do in the log. *)
RECURSIVE Calls(_, _)
Calls(l, name) ==
    IF l = <<>> THEN 0
    ELSE (IF Head(l) = name THEN 1 ELSE 0) + Calls(Tail(l), name)

(* C2: in every call of Client.Send the first call is validateMessage;    *)
(* when it returns an error, Send returns that error with an empty push ID *)
(* and Do is never called; otherwise Do is called at most once, whatever   *)
(* the transport answers.                                                  *)
SendValidatesFirst ==
    log # <<>> =>
        /\ log[1] = "validateMessage"
        /\ verr \in validateMessage(msg)
        /\ verr # NoErr =>
              /\ pc = "returned"
              /\ ret = Ret("", verr)
              /\ Calls(log, "Do") = 0
        /\ Calls(log, "Do") <= 1
        /\ pc = "Do" => Calls(log, "Do") = 1

SendValidatesFirstWitness ==
    /\ pc = "returned" /\ msg # Nil
    /\ verr = Err("malformed topic name")
    /\ ret = Ret("", verr)
    /\ log = <<"validateMessage">>

(* The custom keys of a record that name one of its standard fields. *)
NameCollisions(custom, names) == MapKeys(custom) \cap names

NoNameCollision(m) ==
    /\ WebpushNotificationOf(m) # Nil =>
          NameCollisions(WebpushNotificationOf(m).CustomData,
                         WebpushNotificationKeys) = {}
    /\ APNSPayloadOf(m) # Nil =>
          NameCollisions(APNSPayloadOf(m).CustomData, {"aps"}) = {}
    /\ ApsOf(m) # Nil => NameCollisions(ApsOf(m).CustomData, ApsKeys) = {}

BareForm(m) == [m EXCEPT !.Topic = TrimPrefix(m.Topic, TopicPrefix)]

(* C3: for a message that passes validateMessage and has no custom key     *)
(* that names a standard field, decoding its encoding gives a message      *)
(* equal to it field by field, Topic compared in bare form.                *)
RoundTrip ==
    (pc = "decoded" /\ validateMessage(msg) = {NoErr} /\ NoNameCollision(msg)) =>
        /\ dec.st = "ok"
        /\ BareForm(dec.v) = BareForm(msg)

(* C5: validateMessage rejects every message in which a CustomData key is  *)
(* the name of a standard field of the same record, whether or not the     *)
(* message populates that field.                                           *)
CollisionRejected ==
    (pc = "validated" /\ msg # Nil /\ ~NoNameCollision(msg)) => verr # NoErr

(* The standard-field keys a record populates, read off the record. *)
WebpushPopulated(n) ==
    {k \in WebpushNotificationKeys :
        \/ k = "actions" /\ n.Actions # <<>>
        \/ k = "title" /\ n.Title # ""
        \/ k = "body" /\ n.Body # ""
        \/ k = "icon" /\ n.Icon # ""
        \/ k = "badge" /\ n.Badge # ""
        \/ k = "dir" /\ n.Direction # ""
        \/ k = "data" /\ n.Data # JNull
        \/ k = "image" /\ n.Image # ""
        \/ k = "lang" /\ n.Language # ""
        \/ k = "renotify" /\ n.Renotify
        \/ k = "requireInteraction" /\ n.RequireInteraction
        \/ k = "silent" /\ n.Silent
        \/ k = "tag" /\ n.Tag # ""
        \/ k = "timestamp" /\ n.TimestampMillis # Nil
        \/ k = "vibrate" /\ n.Vibrate # <<>>}

ApsPopulated(a) ==
    {k \in ApsKeys :
        \/ k = "alert" /\ (a.AlertString # "" \/ a.Alert # Nil)
        \/ k = "badge" /\ a.Badge # Nil
        \/ k = "sound" /\ (a.Sound # "" \/ a.CriticalSound # Nil)
        \/ k = "content-available" /\ a.ContentAvailable
        \/ k = "mutable-content" /\ a.MutableContent
        \/ k = "category" /\ a.Category # ""
        \/ k = "thread-id" /\ a.ThreadID # ""}

APNSPayloadPopulated(p) == IF p.Aps # Nil THEN {"aps"} ELSE {}

(* The object enc has the keys populated and those of custom, and under    *)
(* every key of custom the value custom gives it.                          *)
IsOverlay(enc, populated, custom) ==
    /\ enc.t = "obj"
    /\ DOMAIN enc.o = populated \cup MapKeys(custom)
    /\ \A k \in MapKeys(custom) : enc.o[k] = custom[k]

(* The aps dictionary of the message is in the wire document as the        *)
(* encoder of Aps wrote it: the payload's CustomData has no "aps" of its   *)
(* own to write over it.                                                   *)
ApsEncoded ==
    /\ pc = "encoded" /\ wire.st = "ok"
    /\ ApsOf(msg) # Nil
    /\ "aps" \notin MapKeys(APNSPayloadOf(msg).CustomData)

(* C6: the encoding of a WebpushNotification, an Aps or an APNSPayload is  *)
(* one flat object whose keys are the populated standard-field keys of the *)
(* record and the keys of its CustomData, a key of both holding the        *)
(* CustomData value.                                                       *)
EncodingIsOverlay ==
    (pc = "encoded" /\ wire.st = "ok") =>
        /\ WebpushNotificationOf(msg) # Nil =>
              IsOverlay(WireWebpush, WebpushPopulated(WebpushNotificationOf(msg)),
                        WebpushNotificationOf(msg).CustomData)
        /\ APNSPayloadOf(msg) # Nil =>
              IsOverlay(WirePayload, APNSPayloadPopulated(APNSPayloadOf(msg)),
                        APNSPayloadOf(msg).CustomData)
        /\ ApsEncoded =>
              IsOverlay(WireApsOf, ApsPopulated(ApsOf(msg)), ApsOf(msg).CustomData)

(* custom is the wire object without the keys of names: unset when none is *)
(* left.                                                                   *)
IsRemainder(custom, o, names) ==
    IF DOMAIN o \ names = {} THEN custom = Nil
    ELSE /\ custom # Nil
         /\ DOMAIN custom = DOMAIN o \ names
         /\ \A k \in DOMAIN custom : custom[k] = o[k]

(* C7: decoding a WebpushNotification, an Aps or an APNSPayload sets       *)
(* CustomData to the wire object without the keys that name a standard     *)
(* field of the record, whatever their wire values, and leaves it unset    *)
(* when no key remains.                                                    *)
DecodedCustomData ==
    (pc \in {"decoded", "wireDecoded"} /\ dec.st = "ok") =>
        /\ WebpushNotificationOf(dec.v) # Nil =>
              IsRemainder(WebpushNotificationOf(dec.v).CustomData, WireWebpush.o,
                          WebpushNotificationKeys)
        /\ APNSPayloadOf(dec.v) # Nil =>
              IsRemainder(APNSPayloadOf(dec.v).CustomData, WirePayload.o, {"aps"})
        /\ ApsOf(dec.v) # Nil =>
              IsRemainder(ApsOf(dec.v).CustomData, WireApsOf.o, ApsKeys)

(* The alert of the encoded aps is the one the message sets. *)
AlertEmitted(a, enc) ==
    /\ (a.AlertString # "" /\ a.Alert = Nil) =>
          ("alert" \in DOMAIN enc /\ enc["alert"] = JStr(a.AlertString))
    /\ (a.AlertString = "" /\ a.Alert # Nil) =>
          ("alert" \in DOMAIN enc /\ enc["alert"] = ApsAlert_Marshal(a.Alert))
    /\ (a.AlertString = "" /\ a.Alert = Nil) => "alert" \notin DOMAIN enc

BothAlertsRejected ==
    (pc = "validated" /\ ApsOf(msg) # Nil
        /\ ApsOf(msg).AlertString # "" /\ ApsOf(msg).Alert # Nil) => verr # NoErr

(* C8: an aps with AlertString non-empty and Alert non-nil fails           *)
(* validation; when exactly one of the two is set the encoding of the aps  *)
(* has that value under "alert", and when neither is set it has no "alert" *)
(* key.                                                                    *)
AlertUnion ==
    /\ BothAlertsRejected
    /\ ApsEncoded => AlertEmitted(ApsOf(msg), WireApsOf.o)

(* C8, amended: as C8, for an aps whose CustomData has no key "alert"; an  *)
(* "alert" of CustomData is emitted in place of the alert field's value.   *)
AlertUnionNoCustomAlert ==
    /\ BothAlertsRejected
    /\ (ApsEncoded /\ "alert" \notin MapKeys(ApsOf(msg).CustomData)) =>
          AlertEmitted(ApsOf(msg), WireApsOf.o)

AlertUnionWitness ==
    /\ ApsEncoded
    /\ ApsOf(msg).AlertString = "" /\ ApsOf(msg).Alert # Nil
    /\ ApsOf(msg).CustomData = Nil
    /\ WireApsOf.o["alert"] = ApsAlert_Marshal(ApsOf(msg).Alert)

(* The flag is on the wire as 1, or not at all. *)
FlagEmitted(flag, key, enc) ==
    /\ flag => (key \in DOMAIN enc /\ enc[key] = JNum(1))
    /\ ~flag => key \notin DOMAIN enc

(* The decoded flag is true exactly when the wire has the integer 1. *)
FlagDecoded(flag, key, o) == flag <=> (key \in DOMAIN o /\ o[key] = JNum(1))

FlagsDecoded ==
    (pc \in {"decoded", "wireDecoded"} /\ dec.st = "ok" /\ ApsOf(dec.v) # Nil) =>
        /\ FlagDecoded(ApsOf(dec.v).ContentAvailable, "content-available", WireApsOf.o)
        /\ FlagDecoded(ApsOf(dec.v).MutableContent, "mutable-content", WireApsOf.o)

(* C9: ContentAvailable and MutableContent are encoded as the integer 1    *)
(* under content-available and mutable-content when true and as no key     *)
(* when false; the decoded flag is true exactly when the wire integer is   *)
(* 1, false when the key is absent or holds another integer.               *)
FlagsAsIntegers ==
    /\ ApsEncoded =>
          /\ FlagEmitted(ApsOf(msg).ContentAvailable, "content-available", WireApsOf.o)
          /\ FlagEmitted(ApsOf(msg).MutableContent, "mutable-content", WireApsOf.o)
    /\ FlagsDecoded

(* C9, amended: as C9, the encoding half for an aps whose CustomData has   *)
(* neither key; a CustomData entry under the key is emitted as it is.      *)
FlagsAsIntegersNoCustomFlag ==
    /\ (ApsEncoded
          /\ MapKeys(ApsOf(msg).CustomData)
               \cap {"content-available", "mutable-content"} = {}) =>
          /\ FlagEmitted(ApsOf(msg).ContentAvailable, "content-available", WireApsOf.o)
          /\ FlagEmitted(ApsOf(msg).MutableContent, "mutable-content", WireApsOf.o)
    /\ FlagsDecoded

FlagsAsIntegersWitness ==
    /\ pc = "wireDecoded" /\ dec.st = "ok" /\ ApsOf(dec.v) # Nil
    /\ "content-available" \in DOMAIN WireApsOf.o
    /\ WireApsOf.o["content-available"] = JNum(2)
    /\ ~ApsOf(dec.v).ContentAvailable
    /\ ApsOf(dec.v).MutableContent

(* C10: a decoded message holds its Topic in bare form: the wire topic     *)
(* "/topics/X" is decoded as "X", and no decoded Topic starts with         *)
(* "/topics/".                                                             *)
DecodedTopicIsBare ==
    (pc \in {"decoded", "wireDecoded"} /\ dec.st = "ok") =>
        /\ ~HasPrefix(dec.v.Topic, TopicPrefix)
        /\ dec.v.Topic = TrimPrefix(At(wire.j, <<"topic">>).cs, TopicPrefix)

(***************************************************************************)
(* The light settings of a message and of a wire document.                 *)
(***************************************************************************)
LightSettingsOf(m) ==
    IF m # Nil /\ m.Android # Nil /\ m.Android.Notification # Nil
    THEN m.Android.Notification.LightSettings
    ELSE Nil

WireColor == At(wire.j, <<"android", "notification", "light_settings", "color">>)

Decoded == pc \in {"decoded", "wireDecoded"}

(* The four channels of the wire color, denormalized. *)
WireChannels ==
    [k \in {"red", "green", "blue", "alpha"} |-> Denormalize(GetChan(WireColor.o, k))]

(* cs holds two hexadecimal digits at i and i + 1 whose value is n. *)
TwoHexDigits(cs, i, n) ==
    /\ Len(cs) >= i + 1
    /\ IsHexDigit(cs[i]) /\ IsHexDigit(cs[i + 1])
    /\ 16 * HexVal(cs[i]) + HexVal(cs[i + 1]) = n

(* C11: for every color whose four channels denormalize to integers in     *)
(* 0..255, color.toString returns "#" followed by exactly 6 hex digits,    *)
(* two per channel (RRGGBB), when alpha is 255 and by exactly 8 hex digits *)
(* (RRGGBBAA) otherwise, channels below 16 keeping their leading zero; so  *)
(* newColor followed by toString reproduces the channel values of every    *)
(* #RRGGBB or #RRGGBBAA input.                                             *)
ColorToStringPadded ==
    /\ (Decoded /\ dec.st = "ok" /\ WireColor.t = "obj"
          /\ \A k \in DOMAIN WireChannels : WireChannels[k] \in 0..255) =>
          LET s == LightSettingsOf(dec.v).Color
              c == WireChannels
          IN  /\ Len(s) = (IF c["alpha"] = 255 THEN 7 ELSE 9)
              /\ s[1] = "#"
              /\ TwoHexDigits(s, 2, c["red"])
              /\ TwoHexDigits(s, 4, c["green"])
              /\ TwoHexDigits(s, 6, c["blue"])
              /\ c["alpha"] # 255 => TwoHexDigits(s, 8, c["alpha"])
    /\ (pc = "decoded" /\ dec.st = "ok" /\ LightSettingsOf(msg) # Nil
          /\ colorWithAlphaPattern(LightSettingsOf(msg).Color)) =>
          newColor(LightSettingsOf(dec.v).Color) = newColor(LightSettingsOf(msg).Color)

WireAndroid == At(wire.j, <<"android", "notification">>)

DecodedAndroid == dec.v.Android.Notification

(* The wire key, the field and the closed token set of the three enums. *)
AndroidEnums ==
    {[key |-> "notification_priority", field |-> "Priority",
      tokens |-> {"PRIORITY_MIN", "PRIORITY_LOW", "PRIORITY_DEFAULT",
                  "PRIORITY_HIGH", "PRIORITY_MAX"}],
     [key |-> "visibility", field |-> "Visibility",
      tokens |-> {"PRIVATE", "PUBLIC", "SECRET"}],
     [key |-> "proxy", field |-> "Proxy",
      tokens |-> {"ALLOW", "DENY", "IF_PRIORITY_LOWERED"}]}

(* C12: decoding an Android notification override fails with an error for  *)
(* every wire token provided under notification_priority, visibility or    *)
(* proxy that is not a member of that enum's closed token set; only a      *)
(* missing key yields the zero "unknown" value.                            *)
EnumTokensClosed ==
    (pc = "wireDecoded" /\ WireAndroid.t = "obj"
        /\ "light_settings" \notin DOMAIN WireAndroid.o) =>
        \A en \in AndroidEnums :
            /\ (/\ en.key \in DOMAIN WireAndroid.o
                /\ WireAndroid.o[en.key].t = "str"
                /\ WireAndroid.o[en.key].s \notin en.tokens) => dec.st = "err"
            /\ (dec.st = "ok" /\ DecodedAndroid[en.field] = 0) =>
                  en.key \notin DOMAIN WireAndroid.o

WireLightSettings == At(wire.j, <<"android", "notification", "light_settings">>)

(* C13: decoding is total: for every wire document, decode ends with       *)
(* either a message value or a decode error value and never aborts         *)
(* abnormally, also when nested members are absent, as in a light_settings *)
(* object with well-formed light_on_duration and light_off_duration but no *)
(* color member.                                                           *)
DecodeTotal ==
    /\ Decoded => dec.st \in {"ok", "err"}
    /\ (/\ Decoded
        /\ WireLightSettings.t = "obj"
        /\ "color" \notin DOMAIN WireLightSettings.o
        /\ stringToDuration(GetChars(WireLightSettings.o, "light_on_duration")).ok
        /\ stringToDuration(GetChars(WireLightSettings.o, "light_off_duration")).ok)
          => dec.st \in {"ok", "err"}

(* The error is one of validateWebpushConfig's two link errors. *)
IsLinkError(e) ==
    e.msg \in {"invalid link URL", "invalid link URL; want scheme https"}

AbsoluteHTTPS(link) == ParseRequestURI(link).ok /\ ParseRequestURI(link).Scheme = "https"

(* C14: for every message with a web-push block, validation rejects the    *)
(* block's options link if and only if the link is present (non-empty) and *)
(* is not an absolute URL whose scheme is exactly https: a present         *)
(* non-https or malformed link is rejected whether or not the web-push     *)
(* notification override is set, and an options block whose link is empty  *)
(* passes.  (Read on messages that break no other rule.)                   *)
LinkRejectedIffNotHTTPS ==
    (/\ pc = "validated" /\ msg # Nil
     /\ msg.Webpush # Nil /\ msg.Webpush.FCMOptions # Nil
     /\ validateMessage([msg EXCEPT !.Webpush.FCMOptions = Nil]) = {NoErr}) =>
        LET link == msg.Webpush.FCMOptions.Link
        IN  /\ IsLinkError(verr) <=> (link # "" /\ ~AbsoluteHTTPS(link))
            /\ ~IsLinkError(verr) => verr = NoErr

(* The rules of validateMessage on a non-nil message, in the order of the  *)
(* claim; each is the set of errors the rule can report, {NoErr} when the  *)
(* message satisfies it.                                                   *)
Rules(m) ==
    <<IF Targets(m) # 1 THEN {TargetErr} ELSE {NoErr},
      IF m.Topic # <<>> /\ ~bareTopicNamePattern(TrimPrefix(m.Topic, TopicPrefix))
      THEN {Err("malformed topic name")} ELSE {NoErr},
      validateNotification(m.Notification),
      validateAndroidConfig(m.Android),
      validateWebpushConfig(m.Webpush),
      validateAPNSConfig(m.APNS)>>

Violated(m) == {k \in 1..6 : Rules(m)[k] # {NoErr}}

(* C15: validateMessage returns a single first-failure error and checks    *)
(* its rules in a fixed order: message presence, targeting count, topic    *)
(* name, notification image URL, Android block, web-push block, APNs       *)
(* block.  For a message that violates several rules the error returned is *)
(* the one of the earliest violated rule in this order, and a nil platform *)
(* block contributes no error.                                             *)
FirstFailureOrder ==
    pc = "validated" =>
        /\ msg = Nil => verr = Err("message must not be nil")
        /\ (msg # Nil /\ Violated(msg) = {}) => verr = NoErr
        /\ (msg # Nil /\ Violated(msg) # {}) =>
              \E k \in Violated(msg) :
                  /\ \A j \in Violated(msg) : k <= j
                  /\ verr \in Rules(msg)[k]
        /\ msg # Nil =>
              /\ msg.Android = Nil => 4 \notin Violated(msg)
              /\ msg.Webpush = Nil => 5 \notin Violated(msg)
              /\ msg.APNS = Nil => 6 \notin Violated(msg)

(* A message that breaks the Android, the web-push and the APNs rule was   *)
(* answered with the Android error.                                        *)
FirstFailureOrderWitness ==
    /\ pc = "validated" /\ msg # Nil
    /\ Violated(msg) = {4, 5, 6}
    /\ verr = Err("priority must be 'normal' or 'high'")

(* The topic without one leading "/topics/". *)
BareTopic(tp) ==
    IF Len(tp) >= 8 /\ SubSeq(tp, 1, 8) = <<"/", "t", "o", "p", "i", "c", "s", "/">>
    THEN SubSeq(tp, 9, Len(tp))
    ELSE tp

WellFormedTopic(cs) ==
    /\ cs # <<>>
    /\ \A i \in 1..Len(cs) : IsAlnum(cs[i]) \/ cs[i] \in {"-", "_", ".", "~", "%"}

MalformedTopic == Err("malformed topic name")

(* C16: when Topic is the non-empty targeting field, validation succeeds   *)
(* on the topic rule exactly when Topic with one leading "/topics/"        *)
(* removed is a non-empty string made only of letters, digits and the      *)
(* characters - _ . ~ %; otherwise it returns the 'malformed topic name'   *)
(* error (so Topic "/topics/" alone, or a topic containing "/" or a space, *)
(* is rejected).                                                           *)
TopicRule ==
    (pc = "validated" /\ msg # Nil /\ Targets(msg) = 1 /\ msg.Topic # <<>>) =>
        /\ WellFormedTopic(BareTopic(msg.Topic)) => verr # MalformedTopic
        /\ ~WellFormedTopic(BareTopic(msg.Topic)) => verr = MalformedTopic
        /\ msg.Topic \in {TopicPrefix, <<"a", "/", "b">>, <<"a", " ", "b">>,
                          TopicPrefix \o TopicPrefix \o TopicNews}
              => verr = MalformedTopic
        /\ msg.Topic \in {TopicNews, TopicPrefix \o TopicNews,
                          <<"A", "-", "_", ".", "~", "%", "9">>}
              => verr # MalformedTopic

(* The topic "/topics/" alone was rejected. *)
TopicRuleWitness ==
    /\ pc = "validated" /\ msg # Nil /\ Targets(msg) = 1
    /\ msg.Topic = TopicPrefix
    /\ verr = MalformedTopic

(* The wire keys of a message whose field is populated. *)
MessagePopulated(m) ==
    {k \in {"data", "notification", "android", "webpush", "apns", "fcm_options",
            "token", "topic", "condition"} :
        \/ k = "data" /\ m.Data # Nil
        \/ k = "notification" /\ m.Notification # Nil
        \/ k = "android" /\ m.Android # Nil
        \/ k = "webpush" /\ m.Webpush # Nil
        \/ k = "apns" /\ m.APNS # Nil
        \/ k = "fcm_options" /\ m.FCMOptions # Nil
        \/ k = "token" /\ m.Token # ""
        \/ k = "topic" /\ m.Topic # <<>>
        \/ k = "condition" /\ m.Condition # ""}

(* The standard keys of the object enc, those CustomData did not write,    *)
(* are keys of populated fields.                                           *)
OnlyPopulated(enc, populated, custom) ==
    /\ enc.t = "obj"
    /\ (DOMAIN enc.o \ MapKeys(custom)) \subseteq populated

ExampleMessage ==
    [Message0 EXCEPT !.Token = "abc", !.Notification = Notification("Test", "Push", "")]

ExampleWire ==
    JObj(("token" :> JStr("abc"))
         @@ ("notification" :> JObj(("title" :> JStr("Test")) @@ ("body" :> JStr("Push")))))

(* C17: encoding follows omit-if-empty: a key appears in the encoded       *)
(* message, and in the encoded standard fields of an extensible record     *)
(* (web-push notification override, aps, APNs payload), only when the      *)
(* corresponding field is populated.  So the message with only Token "abc" *)
(* and Notification{Title "Test", Body "Push"} validates and encodes to    *)
(* exactly {token, notification: {title, body}}, and an APNs payload whose *)
(* Aps is nil encodes no "aps" key.                                        *)
OmitIfEmpty ==
    /\ (pc = "validated" /\ msg = ExampleMessage) => verr = NoErr
    /\ (pc = "encoded" /\ wire.st = "ok") =>
          /\ wire.j.t = "obj" /\ DOMAIN wire.j.o \subseteq MessagePopulated(msg)
          /\ msg = ExampleMessage => wire.j = ExampleWire
          /\ WebpushNotificationOf(msg) # Nil =>
                OnlyPopulated(WireWebpush, WebpushPopulated(WebpushNotificationOf(msg)),
                              WebpushNotificationOf(msg).CustomData)
          /\ ApsEncoded =>
                OnlyPopulated(WireApsOf, ApsPopulated(ApsOf(msg)), ApsOf(msg).CustomData)
          /\ APNSPayloadOf(msg) # Nil =>
                OnlyPopulated(WirePayload, APNSPayloadPopulated(APNSPayloadOf(msg)),
                              APNSPayloadOf(msg).CustomData)
          /\ (APNSPayloadOf(msg) # Nil /\ APNSPayloadOf(msg).Aps = Nil
                /\ "aps" \notin MapKeys(APNSPayloadOf(msg).CustomData)) =>
                "aps" \notin DOMAIN WirePayload.o

(* The wire value under key of the aps dictionary, JNull when it has none. *)
WireApsMember(key) == At(WireApsOf, <<key>>)

(* The wire value decodes as the struct of its member: an object whose     *)
(* members have the types of the struct's fields.                          *)
IsStructuredAlert(j) == j.t = "obj" /\ ApsAlert_Unmarshal(j).st = "ok"

IsCriticalSound(j) == j.t = "obj" /\ CriticalSound_UnmarshalJSON(j).st = "ok"

(* C19: decoding an aps dictionary tries the "alert" member as a           *)
(* structured alert first and as a plain string second: a JSON object sets *)
(* Alert and leaves AlertString empty, a JSON string sets AlertString and  *)
(* leaves Alert nil, and a value that is neither makes decode return an    *)
(* error; after any successful decode Alert and AlertString are never both *)
(* set.  The "sound" member follows the same rule with CriticalSound and   *)
(* Sound.                                                                  *)
AlertDecodedAsUnion ==
    (Decoded /\ WireApsOf.t = "obj") =>
        LET alert == WireApsMember("alert")
            sound == WireApsMember("sound")
            a     == ApsOf(dec.v)
        IN  /\ (IsStructuredAlert(alert) /\ dec.st = "ok") =>
                  a.Alert = ApsAlert_Unmarshal(alert).v /\ a.AlertString = ""
            /\ (alert.t = "str" /\ dec.st = "ok") =>
                  a.AlertString = alert.s /\ a.Alert = Nil
            /\ (alert.t \notin {"str", "null"} /\ ~IsStructuredAlert(alert)) =>
                  dec.st = "err"
            /\ (IsCriticalSound(sound) /\ dec.st = "ok") =>
                  /\ a.CriticalSound = CriticalSound_UnmarshalJSON(sound).v
                  /\ a.Sound = ""
            /\ (sound.t = "str" /\ dec.st = "ok") =>
                  a.Sound = sound.s /\ a.CriticalSound = Nil
            /\ (sound.t \notin {"str", "null"} /\ ~IsCriticalSound(sound)) =>
                  dec.st = "err"
            /\ (/\ IsStructuredAlert(alert) \/ alert.t \in {"str", "null"}
                /\ IsCriticalSound(sound) \/ sound.t \in {"str", "null"}
                /\ Aps_TypesOk(WireApsOf.o)) => dec.st = "ok"
            /\ dec.st = "ok" =>
                  /\ ~(a.Alert # Nil /\ a.AlertString # "")
                  /\ ~(a.CriticalSound # Nil /\ a.Sound # "")

(* A wire document whose alert is a number was refused as neither a struct *)
(* nor a string.                                                           *)
AlertDecodedAsUnionWitness ==
    /\ pc = "wireDecoded" /\ WireApsOf.t = "obj"
    /\ WireApsMember("alert").t = "num"
    /\ Aps_TypesOk(WireApsOf.o)
    /\ dec.st = "err"

(* C20: validateMessage is deterministic: two evaluations on equal         *)
(* messages return the same outcome, and on failure the same error,        *)
(* including which offending key the error names when several CustomData   *)
(* keys of one record collide with its standard fields.  (verr is what one *)
(* evaluation returned; every error another evaluation of the same message *)
(* can return is that one.)                                                *)
ValidationDeterministic ==
    pc = "validated" => \A e \in validateMessage(msg) : e = verr

(* A step of Message.IsValid, of MarshalJSON or of Client.Send: each       *)
(* starts from a message no call has been made on yet.                     *)
ValidateOrEncodeStep == pc = "new" /\ pc' # "new"

(* C21: validateMessage and encode have no effect on their argument: after *)
(* Message.IsValid, validateMessage or MarshalJSON returns, with or        *)
(* without an error, every field of the message and of its nested blocks   *)
(* (each CustomData bag included) is unchanged.                            *)
ArgumentUnchanged == [][ValidateOrEncodeStep => msg' = msg]_vars

(* A message whose aps dictionary has a CustomData bag was encoded. *)
ArgumentUnchangedWitness ==
    /\ pc = "encoded" /\ wire.st = "ok"
    /\ ApsOf(msg) # Nil /\ ApsOf(msg).CustomData # Nil

AndroidNotificationOf(m) ==
    IF m # Nil /\ m.Android # Nil THEN m.Android.Notification ELSE Nil

(* The wire token of every named constant of the three enums. *)
EnumTokens ==
    [Priority   |-> <<"PRIORITY_MIN", "PRIORITY_LOW", "PRIORITY_DEFAULT",
                      "PRIORITY_HIGH", "PRIORITY_MAX">>,
     Visibility |-> <<"PRIVATE", "PUBLIC", "SECRET">>,
     Proxy      |-> <<"ALLOW", "DENY", "IF_PRIORITY_LOWERED">>]

(* by is the inverse of table: each takes the other's result back. *)
Inverses(table, by) ==
    /\ \A v \in DOMAIN table : table[v] \in DOMAIN by /\ by[table[v]] = v
    /\ \A tk \in DOMAIN by : by[tk] \in DOMAIN table /\ table[by[tk]] = tk

(* C22: for the three Android notification enums (priority, visibility,    *)
(* proxy), encoding emits the key notification_priority, visibility or     *)
(* proxy only when the field is not the zero "unknown" value, with the     *)
(* token of the fixed table; decoding that token returns the same value,   *)
(* so for every named constant decode(encode(v)) = v and the two lookup    *)
(* tables are mutual inverses; the zero value is never emitted.            *)
EnumRoundTrip ==
    /\ (pc \in {"encoded", "decoded"} /\ wire.st = "ok"
          /\ AndroidNotificationOf(msg) # Nil) =>
          \A en \in AndroidEnums :
              LET v == AndroidNotificationOf(msg)[en.field]
              IN  /\ v = 0 => en.key \notin DOMAIN WireAndroid.o
                  /\ v \in 1..Len(EnumTokens[en.field]) =>
                        /\ en.key \in DOMAIN WireAndroid.o
                        /\ WireAndroid.o[en.key] = JStr(EnumTokens[en.field][v])
                  /\ (pc = "decoded" /\ AndroidNotificationOf(msg).LightSettings = Nil) =>
                        /\ dec.st = "ok"
                        /\ AndroidNotificationOf(dec.v)[en.field] = v
    /\ pc = "decoded" =>
          /\ Inverses(priorities, prioritiesByToken)
          /\ Inverses(visibilities, visibilitiesByToken)
          /\ Inverses(proxies, proxiesByToken)

(* PriorityHigh, VisibilityPublic and ProxyDeny came back from the wire. *)
EnumRoundTripWitness ==
    /\ pc = "decoded" /\ dec.st = "ok"
    /\ AndroidNotificationOf(msg) # Nil
    /\ AndroidNotificationOf(msg).Priority = PriorityHigh
    /\ AndroidNotificationOf(msg).Visibility = VisibilityPublic
    /\ AndroidNotificationOf(msg).Proxy = ProxyDeny
    /\ WireAndroid.o["notification_priority"] = JStr("PRIORITY_HIGH")
    /\ AndroidNotificationOf(dec.v).Priority = PriorityHigh
    /\ AndroidNotificationOf(dec.v).Visibility = VisibilityPublic
    /\ AndroidNotificationOf(dec.v).Proxy = ProxyDeny

(* Client.Send went as far as json.Marshal on a message with light         *)
(* settings.                                                               *)
LightSettingsMarshalled ==
    /\ Calls(log, "json.Marshal") > 0
    /\ LightSettingsOf(msg) # Nil

(* C23: validation guards encoding of the LED light settings: on every     *)
(* path through Client.Send, LightSettings.MarshalJSON runs only on a      *)
(* LightSettings accepted by validateLightSettings, so newColor is only    *)
(* applied to a color string of length 7 or 9 made of "#" and hex digits;  *)
(* its fixed slices [1:3], [3:5], [5:7], [7:9] are always in range and its *)
(* hex parsing never fails, and the durations it formats are non-negative. *)
SendGuardsLightSettings ==
    /\ pc # "panicked"
    /\ LightSettingsMarshalled =>
          LET l == LightSettingsOf(msg)
          IN  /\ Calls(log, "validateMessage") = 1 /\ Head(log) = "validateMessage"
              /\ Len(l.Color) \in {7, 9}
              /\ l.Color[1] = "#"
              /\ \A i \in 2..Len(l.Color) : IsHexDigit(l.Color[i])
              /\ l.LightOnDurationMillis >= 0
              /\ l.LightOffDurationMillis >= 0
              /\ newColor(l.Color).st = "ok"
              /\ wire.st = "ok"

(* A message whose light settings have a color with alpha went through     *)
(* json.Marshal in Client.Send.                                            *)
SendGuardsLightSettingsWitness ==
    /\ LightSettingsMarshalled
    /\ pc = "Do"
    /\ Len(LightSettingsOf(msg).Color) = 9
    /\ wire.st = "ok"

(***************************************************************************)
(* The duration micro-format on its own: a duration is formatted, and the  *)
(* string parsed back.                                                     *)
(***************************************************************************)
MaxSeconds == 3

MaxMantissa == 3

NanoCases ==
    {0, 999999999, 123456789, 500000000}
        \cup {m * Pow10(k) : m \in 1..MaxMantissa, k \in 0..8}

Durations ==
    {Dur(sc, n) : sc \in 0..MaxSeconds, n \in NanoCases} \cup {Dur(90, 0)}
        \cup {Dur(0 - sc, 0 - n) : sc \in 0..1, n \in {0, 1, 500000000}}

(* Strings handed to the parser as they are: a seconds segment, no, one or *)
(* two further segments, and the suffix.                                   *)
SecondsSegments ==
    {<<>>, <<"0">>, <<"1">>, <<"1", "2">>, <<"-", "1">>, <<"+", "2">>, <<"x">>}

NanosSegments ==
    {<<>>, <<"5">>, <<"0">>, <<"0", "0", "0">>, <<"0", "5", "0">>, <<"5", "0", "0">>,
     <<"5", "x">>, <<"-", "5">>,
     <<"0", "0", "0", "0", "0", "0", "0", "0", "5">>,
     <<"5", "0", "0", "0", "0", "0", "0", "0", "0">>}

DurationStrings ==
    {sc \o fr \o su :
        sc \in SecondsSegments,
        fr \in {<<>>, <<".", "1", ".", "2">>} \cup {<<".">> \o n : n \in NanosSegments},
        su \in {<<>>, <<"s">>, <<"s", "s">>}}

DurInit ==
    /\ \/ pc = "dur" /\ dur \in Durations /\ str = <<>>
       \/ pc = "text" /\ dur = Dur(0, 0) /\ str \in DurationStrings
    /\ parsed = DurErr
    /\ msg = Unused /\ verr = Unused /\ wire = Unused /\ dec = Unused
    /\ log = Unused /\ ret = Unused

DurFormat ==
    /\ pc = "dur"
    /\ pc' = "str"
    /\ str' = durationToString(dur)
    /\ UNCHANGED <<dur, parsed, msg, verr, wire, dec, log, ret>>

DurParse ==
    /\ pc \in {"str", "text"}
    /\ pc' = IF pc = "str" THEN "parsed" ELSE "textParsed"
    /\ parsed' = stringToDuration(str)
    /\ UNCHANGED <<dur, str, msg, verr, wire, dec, log, ret>>

DurNext == DurFormat \/ DurParse

DurSpec == DurInit /\ [][DurNext]_vars

(* C4: for every non-negative duration d, stringToDuration(durationToString(d)) *)
(* returns d with no error; the string is "{s}s" for whole seconds and      *)
(* "{s}.{n as 9 zero-padded digits}s" otherwise (90s gives "90s", 1.5s      *)
(* gives "1.500000000s").                                                  *)
DurationRoundTrip ==
    /\ (pc \in {"str", "parsed"} /\ ~DurNegative(dur)) =>
          /\ dur.ns = 0 => str = FmtD(dur.sec) \o <<"s">>
          /\ dur.ns # 0 =>
                /\ Len(str) = Len(FmtD(dur.sec)) + 11
                /\ SubSeq(str, 1, Len(FmtD(dur.sec)) + 1) = FmtD(dur.sec) \o <<".">>
                /\ str[Len(str)] = "s"
                /\ LET frac == SubSeq(str, Len(str) - 9, Len(str) - 1)
                   IN  /\ \A i \in 1..9 : IsDigit(frac[i])
                       /\ DigitsVal(frac) = dur.ns
          /\ dur = Dur(90, 0) => str = <<"9", "0", "s">>
          /\ dur = Dur(1, 500000000) =>
                str = <<"1", ".", "5", "0", "0", "0", "0", "0", "0", "0", "0", "s">>
    /\ (pc = "parsed" /\ ~DurNegative(dur)) => (parsed.ok /\ parsed.d = dur)

DurationRoundTripWitness ==
    pc = "parsed" /\ dur = Dur(1, 500000000) /\ parsed.ok /\ parsed.d = dur

(* cs without its leading zeros, and without its trailing zeros. *)
RECURSIVE StripLeadingZeros(_)
StripLeadingZeros(cs) ==
    IF cs # <<>> /\ Head(cs) = "0" THEN StripLeadingZeros(Tail(cs)) ELSE cs

RECURSIVE StripTrailingZeros(_)
StripTrailingZeros(cs) ==
    IF cs # <<>> /\ cs[Len(cs)] = "0"
    THEN StripTrailingZeros(SubSeq(cs, 1, Len(cs) - 1))
    ELSE cs

DurSegments == Split(TrimSuffix(str, "s"), ".")

(* The parse of str is: a format error for more than two segments or a     *)
(* segment that is no decimal integer, and else the seconds of the first   *)
(* segment plus the nanoseconds of the second, fraction being the second   *)
(* segment as it is read.                                                  *)
ParsedAs(fraction) ==
    LET seconds == ParseInt(DurSegments[1])
        nanos   == IF Len(DurSegments) = 2 THEN ParseInt(fraction)
                   ELSE [ok |-> TRUE, v |-> 0]
    IN  IF Len(DurSegments) > 2 \/ ~seconds.ok \/ ~nanos.ok THEN ~parsed.ok
        ELSE parsed.ok /\ parsed.d = DurSum(seconds.v, nanos.v)

FractionSegment == IF Len(DurSegments) >= 2 THEN DurSegments[2] ELSE <<>>

(* C18, as claimed: stringToDuration(s) removes one trailing "s" and       *)
(* splits the rest on ".": more than two segments is a format error;       *)
(* otherwise the result is the first segment parsed as integer seconds     *)
(* plus, when a second segment is present, that segment with its trailing  *)
(* zeros stripped parsed as integer nanoseconds; a segment that is not a   *)
(* decimal integer is a format error.                                      *)
StringToDurationTrailingZeros ==
    pc \in {"parsed", "textParsed"} => ParsedAs(StripTrailingZeros(FractionSegment))

(* C18, amended: as above, with the leading zeros of the second segment    *)
(* stripped in place of the trailing ones; a second segment that is empty  *)
(* once stripped is a format error.                                        *)
StringToDurationLeadingZeros ==
    /\ pc \in {"parsed", "textParsed"} => ParsedAs(StripLeadingZeros(FractionSegment))
    /\ (pc = "textParsed" /\ FractionSegment # <<>>
          /\ StripLeadingZeros(FractionSegment) = <<>>) => ~parsed.ok
    /\ (pc = "textParsed" /\ str = <<"1", ".", "0", "5", "0", "s">>) =>
          parsed.ok /\ parsed.d = Dur(1, 50)

(* "1.500s" was parsed as 1 s and 500 ns. *)
StringToDurationWitness ==
    /\ pc = "textParsed"
    /\ str = <<"1", ".", "5", "0", "0", "s">>
    /\ parsed.ok /\ parsed.d = Dur(1, 500)

====
